---- MODULE Spec2Model ----
(***************************************************************************)
(* MHSolver: the session state machine of main.js (hotkey / IPC triggers,  *)
(* startSolver, stopSolver) on top of solver.js (grid geometry, sequential *)
(* cell detection, cancellable key sequence), and the template-matching    *)
(* variant (unnamed/part_000 startSolver on top of the fast solver that is *)
(* main.js lines 289-550).                                                 *)
(*                                                                         *)
(* JavaScript runs handlers to completion: one action of this module is    *)
(* the code that runs between two real suspension points (screen capture,  *)
(* image extraction, child process, timer).  An await of an async function *)
(* that does no I/O resumes in the same turn and is part of the action.    *)
(***************************************************************************)
EXTENDS Integers, Sequences, FiniteSets, TLC

\* ------------------------------------------------------------------ bounds
MaxSessions == 2   \* startSolver invocations that pass the busy check in one run
MaxStops == 1      \* stopSolver calls in one run
MaxUpdates == 2    \* update-config calls in one run

\* ------------------------------------------------------- program constants
GridDim == 3       \* for (row < 3) for (col < 3)
NumCells == GridDim * GridDim
MaxUnknown == 5    \* if (unknownCount > 5) throw

VALID_LETTERS == <<"Q", "W", "E", "R", "A", "S", "D">>
Unknown == "?"

Sessions == 1 .. MaxSessions
SoloSessions == {1}

\* String.prototype.toLowerCase on the symbols a cell can hold
ToLowerCase(l) ==
  CASE l = "Q" -> "q" [] l = "W" -> "w" [] l = "E" -> "e" [] l = "R" -> "r"
    [] l = "A" -> "a" [] l = "S" -> "s" [] l = "D" -> "d" [] OTHER -> l

RESOLUTION_CONFIGS ==
  [r \in {"1920x1080", "2560x1440"} |->
     IF r = "1920x1080"
       THEN [cellSize |-> 100, cellSpacing |-> 95, offsetX |-> -108, offsetY |-> -88]
       ELSE [cellSize |-> 133, cellSpacing |-> 127, offsetX |-> -144, offsetY |-> -117]]

DefaultConfig ==
  [baseDelay |-> 150, delayVariance |-> 50, resolution |-> "1920x1080",
   cellSize |-> 100, cellSpacing |-> 95, offsetX |-> -108, offsetY |-> -88]

Max(a, b) == IF a >= b THEN a ELSE b

\* { ...config, ...newConfig }
Merge(cfg, newConfig) ==
  [k \in DOMAIN cfg \cup DOMAIN newConfig |->
     IF k \in DOMAIN newConfig THEN newConfig[k] ELSE cfg[k]]

\* solver.js updateConfig; !newConfig.offsetX is true for a missing offset and for 0
updateConfig(cfg, newConfig) ==
  LET merged == Merge(cfg, newConfig)
  IN IF /\ "resolution" \in DOMAIN newConfig
        /\ newConfig.resolution # ""
        /\ newConfig.resolution \in DOMAIN RESOLUTION_CONFIGS
       THEN LET resConfig == RESOLUTION_CONFIGS[newConfig.resolution]
                keepX == "offsetX" \in DOMAIN newConfig /\ newConfig.offsetX # 0
                keepY == "offsetY" \in DOMAIN newConfig /\ newConfig.offsetY # 0
            IN [merged EXCEPT !.cellSize = resConfig.cellSize,
                              !.cellSpacing = resConfig.cellSpacing,
                              !.offsetX = IF keepX THEN @ ELSE resConfig.offsetX,
                              !.offsetY = IF keepY THEN @ ELSE resConfig.offsetY]
       ELSE merged

\* ------------------------------------------------------------ grid geometry
ScreenSize(resolution) ==
  IF resolution = "2560x1440" THEN [w |-> 2560, h |-> 1440] ELSE [w |-> 1920, h |-> 1080]

getTopLeftCellPosition(cfg) ==
  LET sz == ScreenSize(cfg.resolution)
      topLeftX == ((sz.w - cfg.cellSize) \div 2) + cfg.offsetX
      topLeftY == ((sz.h - cfg.cellSize) \div 2) + cfg.offsetY
  IN [x |-> Max(0, topLeftX), y |-> Max(0, topLeftY)]

getCellPosition(cfg, row, col, topLeftPos) ==
  [x |-> topLeftPos.x + col * cfg.cellSpacing,
   y |-> topLeftPos.y + row * cfg.cellSpacing,
   width |-> cfg.cellSize, height |-> cfg.cellSize]

\* the rectangle of cell number k (row-major) as detectLetters asks for it
CellRect(cfg, k, topLeftPos) == getCellPosition(cfg, k \div GridDim, k % GridDim, topLeftPos)

\* the rectangle validateMinigamePresent extracts
PresenceRect(cfg) ==
  LET topLeftPos == getTopLeftCellPosition(cfg)
      gridSize == cfg.cellSpacing * 2 + cfg.cellSize
  IN [x |-> topLeftPos.x, y |-> topLeftPos.y, width |-> gridSize, height |-> gridSize]

\* an extract that accepts any rectangle
InFrameAny(rect, frame) == TRUE

\* sharp's extract rejects a rectangle that is not inside the image
InFrame(rect, frame) ==
  /\ rect.x >= 0 /\ rect.y >= 0 /\ rect.width > 0 /\ rect.height > 0
  /\ rect.x + rect.width <= frame.w
  /\ rect.y + rect.height <= frame.h

\* ------------------------------------------------------------------ timing
\* what getRandomDelay reads from config when it draws a delay
DelayParams(cfg) == [baseDelay |-> cfg.baseDelay, delayVariance |-> cfg.delayVariance]

\* ------------------------------------------------------------------ events
\* what mainWindow.webContents.send publishes
Status(st, msg, n) == [type |-> "solver-status", status |-> st, message |-> msg, count |-> n]
KeyPressed(i, l) == [type |-> "key-pressed", status |-> "", message |-> l, count |-> i]
GridDetected(ls) == [type |-> "grid-detected", status |-> "", message |-> "", count |-> Len(ls)]

VARIABLES
  isDetecting,   \* main.js: let isDetecting
  shouldStop,    \* solver.js: let shouldStop
  config,        \* solver.js: let config
  screen,        \* the display: frame size, what presence validation and each cell's detection yield on it
  pc,            \* per startSolver invocation: where it is suspended
  validated,     \* per invocation: isMinigamePresent ("pending" before it is known)
  letters,       \* per invocation: the letters array of detectLetters / executeKeySequence
  idx,           \* per invocation: the loop index (cell number while detecting, i while executing)
  geom,          \* per invocation: the rectangles it asked for
  timing,        \* per invocation: the baseDelay and delayVariance each of its delays was drawn from
  keys,          \* per invocation: the sendKey calls it made
  failed,        \* per invocation: the index of its first failed key injection (-1: none)
  events,        \* per invocation: the events published while it was in flight
  execCalls,     \* per invocation: how often it entered executeKeySequence
  entryCfg,      \* per invocation: config when it entered Detecting
  stopMark,      \* per invocation: keys sent when stop() hit its inter-key delay (-1: none)
  keyRuns,       \* the sessions whose keys were injected, in order, repeats merged
  nStops,        \* stopSolver calls so far
  nUpdates,      \* update-config calls so far
  templates,     \* fast solver: the letters whose template loadTemplates loaded
  extracted,     \* fast solver, per invocation: the {row, col, ...} records of the extractions that resolved
  probe,         \* the last call of a pure function made on its own: its name, arguments and result
  renderer       \* renderer.js: the events handled so far, the grid display, the status line, the reset timers

vars == <<isDetecting, shouldStop, config, screen, probe, renderer, pc, validated, letters, idx, geom,
          timing, keys, failed, events, execCalls, entryCfg, stopMark, keyRuns,
          nStops, nUpdates, templates, extracted>>

\* ------------------------------------------------------------------ screens
\* Screen contents are fixed for a run.  cells[k+1] is what detectCellLetter returns
\* for cell k of a screenshot of this screen, present what validateMinigamePresent
\* computes on it.
FrameSizes == {[w |-> 1920, h |-> 1080]}
SampleGrids ==
  { <<"Q", "W", "E", "R", "A", "S", "D", "Q", "W">>,
    <<"Q", "?", "?", "W", "?", "E", "?", "R", "?">>,
    <<"?", "Q", "?", "?", "W", "?", "?", "E", "?">> }

\* no pure function has been called on its own
NoProbe == [fn |-> "none"]

\* a reset that leaves the cells as they are
keepGrid(cells) == cells

\* renderer.js resetGrid: every cell shows '?'
resetGrid(cells) == [c \in 1 .. NumCells |-> Unknown]

InitProgram ==
  /\ isDetecting = FALSE
  \* the window after load: nothing handled, an empty grid, no timer set
  /\ renderer = [seen |-> [s \in Sessions |-> 0],
                 cells |-> [c \in 1 .. NumCells |-> Unknown], active |-> -1,
                 statusMessage |-> "Ready - Press hotkey to start", armed |-> 0,
                 fired |-> 0]
  /\ shouldStop = FALSE
  /\ pc = [s \in Sessions |-> "idle"]
  /\ validated = [s \in Sessions |-> "pending"]
  /\ letters = [s \in Sessions |-> <<>>]
  /\ idx = [s \in Sessions |-> 0]
  /\ geom = [s \in Sessions |->
               [presence |-> [x |-> 0, y |-> 0, width |-> 0, height |-> 0],
                topLeft |-> [x |-> 0, y |-> 0], rects |-> <<>>]]
  /\ timing = [s \in Sessions |-> <<>>]
  /\ keys = [s \in Sessions |-> <<>>]
  /\ failed = [s \in Sessions |-> -1]
  /\ events = [s \in Sessions |-> <<>>]
  /\ execCalls = [s \in Sessions |-> 0]
  /\ entryCfg = [s \in Sessions |-> DefaultConfig]
  /\ stopMark = [s \in Sessions |-> -1]
  /\ keyRuns = <<>>
  /\ nStops = 0
  /\ nUpdates = 0
  /\ extracted = [s \in Sessions |-> {}]

\* ------------------------------------------------------- session plumbing
InFlight(s) == pc[s] \notin {"idle", "done"}

UnknownCount(ls) == Cardinality({k \in 1 .. Len(ls) : ls[k] = Unknown})

\* the ceiling off by one
TooManyUnknownOffByOne(n) == n > MaxUnknown + 1

\* main.js: if (unknownCount > 5)
TooManyUnknown(n) == n > MaxUnknown

\* the loop without its cancellation check
StopIgnored(flag) == FALSE

\* solver.js executeKeySequence: if (shouldStop) throw
StopRequested(flag) == flag

\* the loop without its skip of Unknown cells
NextKeyNoSkip(ls, from) == IF from >= NumCells THEN NumCells ELSE from

\* solver.js executeKeySequence: the index of the first cell at or after `from` that
\* is not skipped as Unknown; NumCells when the loop runs out
RECURSIVE NextKey(_, _)
NextKey(ls, from) ==
  IF from >= NumCells THEN NumCells
  ELSE IF ls[from + 1] = Unknown THEN NextKey(ls, from + 1)
  ELSE from

\* a terminal status published ahead of the events that precede it in the code
TerminalFirst(s, pre, st, msg, n) ==
  /\ events' = [events EXCEPT ![s] = @ \o <<Status(st, msg, n)>> \o pre]
  /\ isDetecting' = FALSE
  /\ pc' = [pc EXCEPT ![s] = "done"]

\* the catch / normal end of startSolver followed by its finally block
Terminal(s, pre, st, msg, n) ==
  /\ events' = [events EXCEPT ![s] = @ \o pre \o <<Status(st, msg, n)>>]
  /\ isDetecting' = FALSE
  /\ pc' = [pc EXCEPT ![s] = "done"]

\* executeKeySequence's loop from iteration `from` up to its next suspension
ExecFrom(s, from, pre, flag) ==
  LET ls == letters[s]
      j == NextKey(ls, from)
  IN IF from < NumCells /\ StopRequested(flag)
       THEN /\ Terminal(s, pre, "error", "Sequence stopped by user", 0)
            /\ UNCHANGED <<idx, keys, keyRuns>>
       ELSE IF j >= NumCells
         THEN /\ Terminal(s, pre, "complete", "Complete", 0)
              /\ UNCHANGED <<idx, keys, keyRuns>>
         ELSE /\ events' = [events EXCEPT ![s] = @ \o pre \o <<KeyPressed(j, ls[j + 1])>>]
              /\ keys' = [keys EXCEPT ![s] =
                            Append(@, [index |-> j, key |-> ToLowerCase(ls[j + 1])])]
              /\ keyRuns' = IF keyRuns # <<>> /\ keyRuns[Len(keyRuns)] = s
                              THEN keyRuns ELSE Append(keyRuns, s)
              /\ idx' = [idx EXCEPT ![s] = j]
              /\ pc' = [pc EXCEPT ![s] = "sendKey"]
              /\ UNCHANGED isDetecting

\* ------------------------------------------------- main.js startSolver steps
\* busy check passed: isDetecting = true, two 'detecting' statuses, captureScreen begun
StartSolver(s) ==
  /\ ~isDetecting
  /\ pc[s] = "idle"
  /\ \A t \in Sessions : t < s => pc[t] # "idle"
  /\ isDetecting' = TRUE
  /\ events' = [events EXCEPT ![s] =
                  <<Status("detecting", "Scanning screen...", 0),
                    Status("detecting", "Capturing screen...", 0)>>]
  /\ entryCfg' = [entryCfg EXCEPT ![s] = config]
  /\ pc' = [pc EXCEPT ![s] = "capture"]
  /\ UNCHANGED <<shouldStop, config, screen, probe, renderer, validated, letters, idx, geom, timing,
                 keys, failed, execCalls, stopMark, keyRuns, nStops, nUpdates, templates, extracted>>

\* captureScreen resolved; validateMinigamePresent reads the geometry and begins extracting
CaptureDone(s) ==
  /\ pc[s] = "capture"
  /\ events' = [events EXCEPT ![s] = Append(@, Status("detecting", "Checking for minigame...", 0))]
  /\ geom' = [geom EXCEPT ![s].presence = PresenceRect(config)]
  /\ pc' = [pc EXCEPT ![s] = "validate"]
  /\ UNCHANGED <<isDetecting, shouldStop, config, screen, probe, renderer, validated, letters, idx, timing,
                 keys, failed, execCalls, entryCfg, stopMark, keyRuns, nStops, nUpdates, templates, extracted>>

\* captureScreen rejected: catch, then finally
CaptureFails(s) ==
  /\ pc[s] = "capture"
  /\ Terminal(s, <<>>, "error", "Screen capture failed", 0)
  /\ UNCHANGED <<shouldStop, config, screen, probe, renderer, validated, letters, idx, geom, timing,
                 keys, failed, execCalls, entryCfg, stopMark, keyRuns, nStops, nUpdates, templates, extracted>>

\* validateMinigamePresent returned (false when the extraction threw); its result is
\* stored and not consulted; detectLetters reads the top-left cell position and asks
\* for cell 0
ValidateDone(s) ==
  /\ pc[s] = "validate"
  /\ validated' = [validated EXCEPT ![s] =
                     IF InFrame(geom[s].presence, screen.frame) /\ screen.present
                       THEN "present" ELSE "absent"]
  /\ events' = [events EXCEPT ![s] = Append(@, Status("detecting", "Detecting letters...", 0))]
  /\ LET topLeftPos == getTopLeftCellPosition(config)
     IN geom' = [geom EXCEPT ![s].topLeft = topLeftPos,
                             ![s].rects = <<CellRect(config, 0, topLeftPos)>>]
  /\ idx' = [idx EXCEPT ![s] = 0]
  /\ pc' = [pc EXCEPT ![s] = "cell"]
  /\ UNCHANGED <<isDetecting, shouldStop, config, screen, probe, renderer, letters, timing, keys,
                 failed, execCalls, entryCfg, stopMark, keyRuns, nStops, nUpdates, templates, extracted>>

\* one iteration of detectLetters' loop: captureSingleCell, the cell's debug image,
\* detectCellLetter, letters.push; then the next cell's rectangle is read from config
CellDone(s) ==
  /\ pc[s] = "cell"
  /\ LET k == idx[s]
         rect == geom[s].rects[k + 1]
     IN IF ~InFrame(rect, screen.frame)
          THEN /\ Terminal(s, <<>>, "error", "Failed to capture cell", k)
               /\ UNCHANGED <<letters, idx, geom>>
          ELSE /\ letters' = [letters EXCEPT ![s] = Append(@, screen.cells[k + 1])]
               /\ IF k < NumCells - 1
                    THEN /\ geom' = [geom EXCEPT ![s].rects =
                                       Append(@, CellRect(config, k + 1, geom[s].topLeft))]
                         /\ idx' = [idx EXCEPT ![s] = k + 1]
                         /\ pc' = pc
                    ELSE /\ pc' = [pc EXCEPT ![s] = "debug"]
                         /\ UNCHANGED <<idx, geom>>
               /\ UNCHANGED <<events, isDetecting>>
  /\ UNCHANGED <<shouldStop, config, screen, probe, renderer, validated, timing, keys, failed,
                 execCalls, entryCfg, stopMark, keyRuns, nStops, nUpdates, templates, extracted>>

\* detectLetters returned: 'grid-detected', the Unknown ceiling, 'executing', and
\* executeKeySequence up to its first sendKey
DetectDone(s) ==
  /\ pc[s] = "debug"
  /\ LET u == UnknownCount(letters[s])
         warn == IF u > 0
                   THEN <<Status("detecting", "Warning: letters unclear, will skip those positions", u)>>
                   ELSE <<>>
     IN IF TooManyUnknown(u)
          THEN /\ Terminal(s, <<GridDetected(letters[s])>>, "error", "Too many undetected letters", u)
               /\ UNCHANGED <<shouldStop, idx, keys, keyRuns, execCalls, stopMark>>
          ELSE /\ shouldStop' = FALSE
               /\ execCalls' = [execCalls EXCEPT ![s] = @ + 1]
               /\ stopMark' = [t \in Sessions |-> -1]
               /\ ExecFrom(s, 0,
                           <<GridDetected(letters[s])>> \o warn
                             \o <<Status("executing", "Executing key sequence...", 0)>>,
                           FALSE)
  /\ UNCHANGED <<config, screen, probe, renderer, validated, letters, geom, timing, failed, entryCfg,
                 nStops, nUpdates, templates, extracted>>

\* what follows a sendKey that settled: the delay before the next iteration, or the
\* end of the loop after the last cell
AfterSendKey(s) ==
  LET i == idx[s]
  IN IF i < NumCells - 1
       THEN /\ timing' = [timing EXCEPT ![s] = Append(@, DelayParams(config))]
            /\ pc' = [pc EXCEPT ![s] = "sleep"]
            /\ UNCHANGED <<events, isDetecting>>
       ELSE /\ Terminal(s, <<>>, "complete", "Complete", 0)
            /\ UNCHANGED timing

\* sendKey resolved
SendKeyDone(s) ==
  /\ pc[s] = "sendKey"
  /\ AfterSendKey(s)
  /\ UNCHANGED <<shouldStop, config, screen, probe, renderer, validated, letters, idx, geom, keys, failed,
                 execCalls, entryCfg, stopMark, keyRuns, nStops, nUpdates, templates, extracted>>

\* the PowerShell child process failed: sendKey catches and logs, the loop goes on
SendKeyFails(s) ==
  /\ pc[s] = "sendKey"
  /\ failed' = [failed EXCEPT ![s] = IF @ = -1 THEN idx[s] ELSE @]
  /\ AfterSendKey(s)
  /\ UNCHANGED <<shouldStop, config, screen, probe, renderer, validated, letters, idx, geom, keys,
                 execCalls, entryCfg, stopMark, keyRuns, nStops, nUpdates, templates, extracted>>

\* the inter-key timer fired: i++, the stop check, and on to the next sendKey
SleepDone(s) ==
  /\ pc[s] = "sleep"
  /\ ExecFrom(s, idx[s] + 1, <<>>, shouldStop)
  /\ UNCHANGED <<shouldStop, config, screen, probe, renderer, validated, letters, geom, timing, failed,
                 execCalls, entryCfg, stopMark, nStops, nUpdates, templates, extracted>>

\* --------------------------------------------------------------- triggers
\* main.js stopSolver: isDetecting = false; solver.stop(); 'stopped'
StopSolver ==
  /\ nStops < MaxStops
  /\ nStops' = nStops + 1
  /\ isDetecting' = FALSE
  /\ shouldStop' = TRUE
  /\ events' = [s \in Sessions |->
                  IF InFlight(s) THEN Append(events[s], Status("stopped", "Stopped", 0))
                  ELSE events[s]]
  /\ stopMark' = [s \in Sessions |->
                    IF pc[s] = "sleep" /\ stopMark[s] = -1 THEN Len(keys[s]) ELSE stopMark[s]]
  /\ UNCHANGED <<config, screen, probe, renderer, pc, validated, letters, idx, geom, timing, keys,
                 failed, execCalls, entryCfg, keyRuns, nUpdates, templates, extracted>>

\* the globalShortcut callback registered by registerHotkey
HotkeyPressed(S) ==
  \/ /\ ~isDetecting
     /\ \E s \in S : StartSolver(s)
  \/ /\ isDetecting
     /\ StopSolver

\* ipcMain.handle('start-solver'): startSolver returns at once when busy
IpcStartSolver(S) ==
  \/ \E s \in S : StartSolver(s)
  \/ /\ isDetecting
     /\ UNCHANGED vars

\* ipcMain.handle('stop-solver')
IpcStopSolver == StopSolver

SessionStep(s) ==
  \/ CaptureDone(s)
  \/ CaptureFails(s)
  \/ ValidateDone(s)
  \/ CellDone(s)
  \/ DetectDone(s)
  \/ SendKeyDone(s)
  \/ SleepDone(s)

\* ------------------------------------------------------ the application
\* main.js + solver.js under hotkey and IPC triggers, sessions as they overlap
Init ==
  /\ InitProgram
  /\ probe = NoProbe
  /\ config = DefaultConfig
  /\ templates = {}
  /\ screen \in [frame : FrameSizes, present : BOOLEAN, cells : SampleGrids]

Next ==
  \/ HotkeyPressed(Sessions)
  \/ IpcStartSolver(Sessions)
  \/ IpcStopSolver
  \/ \E s \in Sessions : SessionStep(s)

Spec == Init /\ [][Next]_vars

\* one session over every grid, with failing key injections
InitGrid ==
  /\ InitProgram
  /\ probe = NoProbe
  /\ config = DefaultConfig
  /\ templates = {}
  /\ screen \in [frame : FrameSizes, present : {TRUE}, cells : [1 .. NumCells -> {Unknown, "Q"}]]

NextGrid ==
  \/ HotkeyPressed(SoloSessions)
  \/ IpcStartSolver(SoloSessions)
  \/ IpcStopSolver
  \/ \E s \in SoloSessions : SessionStep(s)
  \/ \E s \in SoloSessions : SendKeyFails(s)

SpecGrid == InitGrid /\ [][NextGrid]_vars

\* ipcMain.handle('update-config') with the objects the renderer's controls send
UpdateConfig ==
  /\ nUpdates < MaxUpdates
  /\ \E newConfig \in { [resolution |-> "2560x1440"], [resolution |-> "3840x2160"],
                        [offsetX |-> -50], [offsetX |-> 800], [baseDelay |-> 300] } :
       config' = updateConfig(config, newConfig)
  /\ nUpdates' = nUpdates + 1
  /\ UNCHANGED <<isDetecting, shouldStop, screen, probe, renderer, pc, validated, letters, idx, geom, timing,
                 keys, failed, events, execCalls, entryCfg, stopMark, keyRuns, nStops,
                 templates, extracted>>

\* one session while the settings view changes the configuration
InitCfg ==
  /\ InitProgram
  /\ probe = NoProbe
  /\ config = DefaultConfig
  /\ templates = {}
  /\ screen \in [frame : FrameSizes, present : {TRUE},
                  cells : {<<"Q", "W", "E", "R", "A", "S", "D", "Q", "W">>}]

NextCfg ==
  \/ IpcStartSolver(SoloSessions)
  \/ \E s \in SoloSessions : SessionStep(s)
  \/ UpdateConfig

SpecCfg == InitCfg /\ [][NextCfg]_vars

\* ------------------------------------------- the template-matching variant
\* main.js 289-550 is the fast solver module, unnamed/part_000 1-301 the main process
\* that drives it.  Its stopSolver has the effect of StopSolver above, with the fast
\* solver's shouldStop, which nothing resets (resetStop is exported and never called).
FastConfig ==
  [resolution |-> [width |-> 1920, height |-> 1080], cellSize |-> 100, cellSpacing |-> 95,
   topLeft |-> [x |-> 792, y |-> 445], offset |-> [x |-> -118, y |-> -45], keyDelay |-> 15]

\* solveMinigameFast step 2
gridConfig(cfg) ==
  [cellSize |-> cfg.cellSize, cellSpacing |-> cfg.cellSpacing,
   topLeft |-> [x |-> cfg.topLeft.x + cfg.offset.x, y |-> cfg.topLeft.y + cfg.offset.y]]

\* solveMinigameFast step 3: the rectangle extracted for cell number k (row-major)
FastCellRect(g, k) ==
  [x |-> g.topLeft.x + (k % GridDim) * g.cellSpacing,
   y |-> g.topLeft.y + (k \div GridDim) * g.cellSpacing,
   width |-> g.cellSize, height |-> g.cellSize]

\* pressKeySequenceFast's loop from iteration `from` up to its next suspension; a
\* break and the end of the loop both return normally, and startSolver then publishes
\* 'grid-detected' and 'complete'
FastFrom(s, from, flag) ==
  LET ls == letters'[s]
      j == NextKey(ls, from)
  IN IF flag \/ j >= NumCells
       THEN /\ Terminal(s, <<GridDetected(ls)>>, "complete", "Complete", 0)
            /\ UNCHANGED <<idx, keys, keyRuns>>
       ELSE /\ keys' = [keys EXCEPT ![s] =
                          Append(@, [index |-> j, key |-> ToLowerCase(ls[j + 1])])]
            /\ keyRuns' = IF keyRuns # <<>> /\ keyRuns[Len(keyRuns)] = s
                            THEN keyRuns ELSE Append(keyRuns, s)
            /\ idx' = [idx EXCEPT ![s] = j]
            /\ pc' = [pc EXCEPT ![s] = "sendKey"]
            /\ UNCHANGED <<events, isDetecting>>

\* part_000 startSolver up to its await: the busy check, the templatesLoaded check,
\* isDetecting = true, 'detecting', and solveMinigameFast up to screenshot()
FastStartSolver(s) ==
  /\ ~isDetecting
  /\ pc[s] = "idle"
  /\ \A t \in Sessions : t < s => pc[t] # "idle"
  /\ IF templates = {}
       THEN /\ events' = [events EXCEPT ![s] =
                            <<Status("error", "Templates not loaded! Check setup instructions.", 0)>>]
            /\ pc' = [pc EXCEPT ![s] = "done"]
            /\ UNCHANGED isDetecting
       ELSE /\ isDetecting' = TRUE
            /\ events' = [events EXCEPT ![s] = <<Status("detecting", "Starting fast solver...", 0)>>]
            /\ pc' = [pc EXCEPT ![s] = "capture"]
  /\ entryCfg' = [entryCfg EXCEPT ![s] = config]
  /\ UNCHANGED <<shouldStop, config, screen, probe, renderer, validated, letters, idx, geom, timing, keys,
                 failed, execCalls, stopMark, keyRuns, nStops, nUpdates, templates, extracted>>

\* screenshot() resolved; image.metadata() begun
FastCaptureDone(s) ==
  /\ pc[s] = "capture"
  /\ pc' = [pc EXCEPT ![s] = "metadata"]
  /\ UNCHANGED <<isDetecting, shouldStop, config, screen, probe, renderer, validated, letters, idx, geom,
                 timing, keys, failed, events, execCalls, entryCfg, stopMark, keyRuns,
                 nStops, nUpdates, templates, extracted>>

\* screenshot() rejected: solveMinigameFast's catch returns success: false and
\* startSolver throws, publishes 'error' and clears isDetecting
FastCaptureFails(s) ==
  /\ pc[s] = "capture"
  /\ Terminal(s, <<>>, "error", "Screen capture failed", 0)
  /\ UNCHANGED <<shouldStop, config, screen, probe, renderer, validated, letters, idx, geom, timing, keys,
                 failed, execCalls, entryCfg, stopMark, keyRuns, nStops, nUpdates,
                 templates, extracted>>

\* metadata resolved: the grid position is read from config and all 9 extractions begin
FastMetadataDone(s) ==
  /\ pc[s] = "metadata"
  /\ LET g == gridConfig(config)
     IN geom' = [geom EXCEPT ![s].topLeft = g.topLeft,
                             ![s].rects = [k \in 1 .. NumCells |-> FastCellRect(g, k - 1)]]
  /\ extracted' = [extracted EXCEPT ![s] = {}]
  /\ pc' = [pc EXCEPT ![s] = "extract"]
  /\ UNCHANGED <<isDetecting, shouldStop, config, screen, probe, renderer, validated, letters, idx, timing,
                 keys, failed, events, execCalls, entryCfg, stopMark, keyRuns, nStops,
                 nUpdates, templates>>

\* the cells whose promise has resolved
SettledCells(results) == {r.row * GridDim + r.col : r \in results}

\* a join that lets go at the first resolved promise
AnySettled(results) == results # {}

\* Promise.all over the 9 promises resolves when each of them has
AllSettled(results) == Cardinality(results) = NumCells

\* solveMinigameFast step 5: a 3 x 3 grid of '?' in which each result is written at
\* its own row and column, read row by row
BuildGrid(results) ==
  [c \in 1 .. NumCells |->
     IF \E r \in results : r.row * GridDim + r.col = c - 1
       THEN (CHOOSE r \in results : r.row * GridDim + r.col = c - 1).letter
       ELSE Unknown]

\* the extraction of cell k settled, in whatever order; its record carries the row
\* and column it was started for and (as letter) what detectLetterFast finds in it.  A rejection rejects the
\* Promise.all.  The last one to resolve lets both Promise.all resolve in the same
\* turn (detectLetterFast and compareImages do no I/O): the grid is built, the
\* sequence is read off it row by row, and pressKeySequenceFast runs up to its
\* first key
FastExtractDone(s, k) ==
  /\ pc[s] = "extract"
  /\ k \notin SettledCells(extracted[s])
  /\ IF ~InFrame(geom[s].rects[k + 1], screen.frame)
       THEN /\ Terminal(s, <<>>, "error", "extract_area: bad extract area", k)
            /\ UNCHANGED <<extracted, letters, idx, keys, keyRuns, execCalls>>
       ELSE /\ extracted' = [extracted EXCEPT ![s] =
                               @ \cup {[row |-> k \div GridDim, col |-> k % GridDim,
                                        letter |-> screen.cells[k + 1]]}]
            /\ IF AllSettled(extracted'[s])
                 THEN /\ letters' = [letters EXCEPT ![s] = BuildGrid(extracted'[s])]
                      /\ execCalls' = [execCalls EXCEPT ![s] = @ + 1]
                      /\ FastFrom(s, 0, shouldStop)
                 ELSE UNCHANGED <<letters, idx, keys, keyRuns, execCalls, events,
                                  isDetecting, pc>>
  /\ UNCHANGED <<shouldStop, config, screen, probe, renderer, validated, geom, timing, failed, entryCfg,
                 stopMark, nStops, nUpdates, templates>>

\* the PowerShell child process exited without error: the keyDelay timer is started,
\* after the last key too
FastSendKeyDone(s) ==
  /\ pc[s] = "sendKey"
  /\ pc' = [pc EXCEPT ![s] = "sleep"]
  /\ UNCHANGED <<isDetecting, shouldStop, config, screen, probe, renderer, validated, letters, idx, geom,
                 timing, keys, failed, events, execCalls, entryCfg, stopMark, keyRuns,
                 nStops, nUpdates, templates, extracted>>

\* the child process failed: the promise rejects, pressKeySequenceFast rejects,
\* solveMinigameFast's catch returns success: false, startSolver throws and publishes
\* 'error'
FastSendKeyFails(s) ==
  /\ pc[s] = "sendKey"
  /\ failed' = [failed EXCEPT ![s] = IF @ = -1 THEN idx[s] ELSE @]
  /\ Terminal(s, <<>>, "error", "Command failed", 0)
  /\ UNCHANGED <<shouldStop, config, screen, probe, renderer, validated, letters, idx, geom, timing, keys,
                 execCalls, entryCfg, stopMark, keyRuns, nStops, nUpdates, templates,
                 extracted>>

\* the keyDelay timer fired: the next iteration, with its shouldStop check
FastSleepDone(s) ==
  /\ pc[s] = "sleep"
  /\ letters' = letters
  /\ FastFrom(s, idx[s] + 1, shouldStop)
  /\ UNCHANGED <<shouldStop, config, screen, probe, renderer, validated, geom, timing, failed, execCalls,
                 entryCfg, stopMark, nStops, nUpdates, templates, extracted>>

FastHotkeyPressed(S) ==
  \/ /\ ~isDetecting
     /\ \E s \in S : FastStartSolver(s)
  \/ /\ isDetecting
     /\ StopSolver

FastIpcStartSolver(S) ==
  \/ \E s \in S : FastStartSolver(s)
  \/ /\ isDetecting
     /\ UNCHANGED vars

FastSessionStep(s) ==
  \/ FastCaptureDone(s)
  \/ FastCaptureFails(s)
  \/ FastMetadataDone(s)
  \/ \E k \in 0 .. NumCells - 1 : FastExtractDone(s, k)
  \/ FastSendKeyDone(s)
  \/ FastSendKeyFails(s)
  \/ FastSleepDone(s)

\* loadTemplates has finished before the first hotkey: either no template file was
\* found or all seven were; detectLetterFast yields a loaded template's letter or '?'
InitFast ==
  /\ InitProgram
  /\ probe = NoProbe
  /\ config = FastConfig
  /\ \/ /\ templates = {}
        /\ screen \in [frame : FrameSizes, present : {TRUE},
                        cells : {[c \in 1 .. NumCells |-> Unknown]}]
     \/ /\ templates = {VALID_LETTERS[k] : k \in 1 .. Len(VALID_LETTERS)}
        /\ screen \in [frame : FrameSizes, present : {TRUE}, cells : SampleGrids]

NextFast ==
  \/ FastHotkeyPressed(SoloSessions)
  \/ FastIpcStartSolver(SoloSessions)
  \/ IpcStopSolver
  \/ \E s \in SoloSessions : FastSessionStep(s)

SpecFast == InitFast /\ [][NextFast]_vars

\* ------------------------------------------------- pure functions on their own
\* everything but config and probe
sessionState == <<isDetecting, shouldStop, screen, renderer, pc, validated, letters, idx, geom, timing,
                  keys, failed, events, execCalls, entryCfg, stopMark, keyRuns, nStops,
                  nUpdates, templates, extracted>>

\* a screen on which nothing is looked at
BlankScreen ==
  [frame |-> [w |-> 1920, h |-> 1080], present |-> FALSE,
   cells |-> [c \in 1 .. NumCells |-> Unknown]]

\* Math.random() yields roll / RandDenom, 0 <= roll < RandDenom; delays are carried as
\* multiples of 1 / RandDenom ms
RandDenom == 4
MinDelay == 50     \* Math.max(50, ...)

\* getRandomDelay without its floor
getRandomDelayNoFloor(cfg, roll) ==
  cfg.baseDelay * RandDenom + (roll * cfg.delayVariance * 2 - cfg.delayVariance * RandDenom)

\* solver.js getRandomDelay, times RandDenom
getRandomDelay(cfg, roll) ==
  LET variance == roll * cfg.delayVariance * 2 - cfg.delayVariance * RandDenom
  IN Max(MinDelay * RandDenom, cfg.baseDelay * RandDenom + variance)

\* update-config with { baseDelay } or { delayVariance }, for the values the delay
\* controls of the settings view are set to
UpdateDelay ==
  /\ \/ \E b \in {0, 20, 50, 60, 150, 300} : config' = updateConfig(config, [baseDelay |-> b])
     \/ \E v \in {0, 10, 50, 100, 400} : config' = updateConfig(config, [delayVariance |-> v])
  /\ UNCHANGED <<probe, sessionState>>

\* one call of getRandomDelay
DrawDelay ==
  /\ \E roll \in 0 .. RandDenom - 1 :
       probe' = [fn |-> "getRandomDelay", baseDelay |-> config.baseDelay,
                 delayVariance |-> config.delayVariance, roll |-> roll,
                 delay |-> getRandomDelay(config, roll)]
  /\ UNCHANGED <<config, sessionState>>

InitDelay ==
  /\ InitProgram
  /\ probe = NoProbe
  /\ config = DefaultConfig
  /\ templates = {}
  /\ screen = BlankScreen

NextDelay ==
  \/ UpdateDelay
  \/ DrawDelay

SpecDelay == InitDelay /\ [][NextDelay]_vars

\* ------------------------------- the template-matching variant, reconfigured
\* main.js 527-529: the fast solver's updateConfig is the bare spread
FastUpdateConfig(cfg, newConfig) == Merge(cfg, newConfig)

\* part_000 ipcMain.handle('update-config')
FastUpdate ==
  /\ nUpdates < MaxUpdates
  \* the flat keys the settings view sends (which the fast solver stores and never
  \* reads, but for keyDelay) and a nested offset
  /\ \E newConfig \in { [offsetX |-> -50], [keyDelay |-> 30],
                        [offset |-> [x |-> -800, y |-> -45]] } :
       config' = FastUpdateConfig(config, newConfig)
  /\ nUpdates' = nUpdates + 1
  /\ UNCHANGED <<isDetecting, shouldStop, screen, probe, renderer, pc, validated, letters, idx, geom,
                 timing, keys, failed, events, execCalls, entryCfg, stopMark, keyRuns,
                 nStops, templates, extracted>>

InitFastCfg ==
  /\ InitProgram
  /\ probe = NoProbe
  /\ config = FastConfig
  /\ templates = {VALID_LETTERS[k] : k \in 1 .. Len(VALID_LETTERS)}
  /\ screen \in [frame : FrameSizes, present : {TRUE},
                  cells : {<<"Q", "W", "E", "R", "A", "S", "D", "Q", "W">>}]

NextFastCfg ==
  \/ FastIpcStartSolver(SoloSessions)
  \/ \E s \in SoloSessions : FastSessionStep(s)
  \/ FastUpdate

SpecFastCfg == InitFastCfg /\ [][NextFastCfg]_vars

\* ------------------------------------------------------ presence validation
\* A grid region is given by how many of its pixels have each colour of a palette.
Palette ==
  << [r |-> 0, g |-> 255, b |-> 255],      \* letter cyan
     [r |-> 50, g |-> 150, b |-> 200],     \* border blue, bright
     [r |-> 0, g |-> 100, b |-> 120],      \* border blue, dim
     [r |-> 10, g |-> 20, b |-> 50],       \* cell background
     [r |-> 0, g |-> 0, b |-> 0],          \* black
     [r |-> 255, g |-> 255, b |-> 255],    \* white
     [r |-> 128, g |-> 128, b |-> 128] >>  \* gray

\* a colour has 0, 160 or 40000 pixels in a region; none of these counts makes a
\* percentage land on a threshold, where the result would hang on floating-point rounding
Regions ==
  {rg \in [1 .. Len(Palette) -> {0, 160, 40000}] : \E c \in 1 .. Len(Palette) : rg[c] > 0}

\* frames a region is cut from
ProbeFrames == {[w |-> 1920, h |-> 1080], [w |-> 1024, h |-> 600]}

Abs(n) == IF n < 0 THEN -n ELSE n

\* validateMinigamePresent's three pixel tests
IsCyanLetter(p) ==
  /\ p.b > 100 /\ p.g > 70 /\ p.r < 140
  /\ p.r + p.g + p.b > 230
  /\ Abs(p.r - p.g) + Abs(p.r - p.b) + Abs(p.g - p.b) > 80

IsDarkBlue(p) == p.b > 20 /\ p.b < 80 /\ p.r < 50 /\ p.g < 70

IsGridBorder(p) == p.b > 90 /\ p.b < 220 /\ p.g > 70 /\ p.g < 180 /\ p.r < 140

\* the pixels of region rg whose colour is one of `colours` (palette indices), counted
\* from palette index c on
RECURSIVE CountFrom(_, _, _)
CountFrom(rg, colours, c) ==
  IF c > Len(Palette) THEN 0
  ELSE (IF c \in colours THEN rg[c] ELSE 0) + CountFrom(rg, colours, c + 1)

\* the gate with OR in place of AND
AnyOfThree(hasLetters, hasBackground, hasGridLines) ==
  hasLetters \/ hasBackground \/ hasGridLines

\* const isPresent = hasLetters && hasBackground && hasGridLines
AllOfThree(hasLetters, hasBackground, hasGridLines) ==
  hasLetters /\ hasBackground /\ hasGridLines

\* solver.js validateMinigamePresent on a frame whose grid region is rg; percentages
\* are compared as cross-multiplied integers
validateMinigamePresent(cfg, frame, rg) ==
  LET colours == 1 .. Len(Palette)
      cyanPixelCount == CountFrom(rg, {c \in colours : IsCyanLetter(Palette[c])}, 1)
      darkBluePixelCount == CountFrom(rg, {c \in colours : IsDarkBlue(Palette[c])}, 1)
      gridBorderPixelCount == CountFrom(rg, {c \in colours : IsGridBorder(Palette[c])}, 1)
      totalPixels == CountFrom(rg, 1 .. Len(Palette), 1)
      hasLetters == cyanPixelCount * 1000 > 2 * totalPixels /\ cyanPixelCount > 150
      hasBackground == darkBluePixelCount * 100 > 25 * totalPixels
      hasGridLines == gridBorderPixelCount * 100 > totalPixels
      extractable == InFrame(PresenceRect(cfg), frame)
  IN [fn |-> "validateMinigamePresent", region |-> rg, extractable |-> extractable,
      cyan |-> cyanPixelCount, dark |-> darkBluePixelCount, border |-> gridBorderPixelCount,
      total |-> totalPixels,
      hasLetters |-> extractable /\ hasLetters,
      hasBackground |-> extractable /\ hasBackground,
      hasGridLines |-> extractable /\ hasGridLines,
      isPresent |-> extractable /\ AllOfThree(hasLetters, hasBackground, hasGridLines)]

\* one call of validateMinigamePresent, on the screenshot at hand
ProbePresence ==
  /\ probe.fn = "screenshot"
  /\ probe' = validateMinigamePresent(config, probe.frame, probe.region)
  /\ UNCHANGED <<config, sessionState>>

InitPresence ==
  /\ InitProgram
  /\ config = DefaultConfig
  /\ templates = {}
  /\ screen = BlankScreen
  /\ probe \in [fn : {"screenshot"}, frame : ProbeFrames, region : Regions]

NextPresence == ProbePresence

SpecPresence == InitPresence /\ [][NextPresence]_vars

\* ---------------------------------------------------------- letter signature
\* A cell image is black but for one filled rectangle of some ink and, possibly, one
\* more letter-cyan pixel (a spur) somewhere else.
ImgW == 84
ImgH == 16
EvidenceFloor == 80   \* if (brightPixels.length < 80)

LetterInk == [r |-> 0, g |-> 255, b |-> 255]
OffInk == [r |-> 130, g |-> 200, b |-> 200]
NoSpur == [x |-> -1, y |-> -1]

CellImages ==
  [rect : [x : {0, 3}, y : {0, 3}, width : {1, 8, 10, 79, 80}, height : {1, 8, 10}],
   ink : {LetterInk, [r |-> 100, g |-> 110, b |-> 125], OffInk},
   spur : {NoSpur, [x |-> 0, y |-> 0], [x |-> ImgW - 1, y |-> ImgH - 1],
           [x |-> ImgW - 1, y |-> 0]}]

\* data[i], data[i + 1], data[i + 2] at (x, y)
PixelAt(img, x, y) ==
  IF img.spur.x = x /\ img.spur.y = y THEN LetterInk
  ELSE IF /\ x >= img.rect.x /\ x < img.rect.x + img.rect.width
          /\ y >= img.rect.y /\ y < img.rect.y + img.rect.height
         THEN img.ink
  ELSE [r |-> 0, g |-> 0, b |-> 0]

\* createLetterSignature's pixel test
isCyanLetter(p) == p.r < 120 /\ p.g > 100 /\ p.b > 120 /\ p.g + p.b > 230

\* an evidence floor of a single pixel
FloorOfOne(n) == n < 1

\* if (brightPixels.length < 80)
TooFewPixels(n) == n < EvidenceFloor

Min(a, b) == IF a <= b THEN a ELSE b
MinOf(S) == CHOOSE v \in S : \A u \in S : v <= u
MaxOf(S) == CHOOSE v \in S : \A u \in S : v >= u

\* solver.js createLetterSignature.  A quotient a / b is carried as [num |-> a,
\* den |-> b]; the comparisons with centerX, centerY and centerRadius are multiplied
\* out (centerX = (minX + maxX) / 2, centerRadius = min(width, height) / 4).
createLetterSignature(img) ==
  LET brightPixels == {p \in (0 .. ImgW - 1) \X (0 .. ImgH - 1) :
                         isCyanLetter(PixelAt(img, p[1], p[2]))}
      total == Cardinality(brightPixels)
  IN IF TooFewPixels(total)
       THEN [cyanPixels |-> total, pixelCount |-> total,
             aspectRatio |-> [num |-> 1, den |-> 1],
             topHeavy |-> [num |-> 1, den |-> 2], bottomHeavy |-> [num |-> 1, den |-> 2],
             leftHeavy |-> [num |-> 1, den |-> 2], rightHeavy |-> [num |-> 1, den |-> 2],
             centerHole |-> FALSE]
       ELSE
         LET minX == MinOf({p[1] : p \in brightPixels})
             maxX == MaxOf({p[1] : p \in brightPixels})
             minY == MinOf({p[2] : p \in brightPixels})
             maxY == MaxOf({p[2] : p \in brightPixels})
             letterWidth == maxX - minX + 1
             letterHeight == maxY - minY + 1
             topPixels == Cardinality({p \in brightPixels : 2 * p[2] < minY + maxY})
             bottomPixels == Cardinality({p \in brightPixels : 2 * p[2] >= minY + maxY})
             leftPixels == Cardinality({p \in brightPixels : 2 * p[1] < minX + maxX})
             rightPixels == Cardinality({p \in brightPixels : 2 * p[1] >= minX + maxX})
             centerPixels ==
               Cardinality({p \in brightPixels :
                              /\ Abs(4 * p[1] - 2 * (minX + maxX)) < Min(letterWidth, letterHeight)
                              /\ Abs(4 * p[2] - 2 * (minY + maxY)) < Min(letterWidth, letterHeight)})
         IN [cyanPixels |-> total, pixelCount |-> total,
             aspectRatio |-> [num |-> letterWidth, den |-> letterHeight],
             topHeavy |-> [num |-> topPixels, den |-> total],
             bottomHeavy |-> [num |-> bottomPixels, den |-> total],
             leftHeavy |-> [num |-> leftPixels, den |-> total],
             rightHeavy |-> [num |-> rightPixels, den |-> total],
             centerHole |-> centerPixels * 100 < total * 15]

\* one call of createLetterSignature, on the cell image at hand
ProbeSignature ==
  /\ probe.fn = "cell"
  /\ probe' = [fn |-> "createLetterSignature", image |-> probe.image,
               signature |-> createLetterSignature(probe.image)]
  /\ UNCHANGED <<config, sessionState>>

InitSignature ==
  /\ InitProgram
  /\ config = DefaultConfig
  /\ templates = {}
  /\ screen = BlankScreen
  /\ probe \in [fn : {"cell"}, image : CellImages]

NextSignature == ProbeSignature

SpecSignature == InitSignature /\ [][NextSignature]_vars

\* ------------------------------------------------------ letter classification
\* quotient q = [num, den] against the decimal literal n / d
Gt(q, n, d) == q.num * d > n * q.den
Lt(q, n, d) == q.num * d < n * q.den
Le(q, n, d) == q.num * d <= n * q.den

\* the sanity check switched off
AlwaysSane(aspectRatio) == FALSE

\* if (aspectRatio > 2.0 || aspectRatio < 0.15)
OutOfRange(aspectRatio) == Gt(aspectRatio, 2, 1) \/ Lt(aspectRatio, 15, 100)

\* a difference test that never finds the halves balanced
NeverClose(l, r, n, d) == FALSE

\* Math.abs(l - r) < n / d
AbsDiffLt(l, r, n, d) == Abs(l.num * r.den - r.num * l.den) * d < n * l.den * r.den

\* the wide-letter test switched off
NeverWide(aspectRatio) == FALSE

\* a classifier that looks at the stop flag
stopAwareLetter(signature) ==
  IF shouldStop THEN Unknown
  ELSE IF Gt(signature.aspectRatio, 130, 100) THEN "W" ELSE "S"

\* if (aspectRatio > 1.30) return 'W'
IsWide(aspectRatio) == Gt(aspectRatio, 130, 100)

\* solver.js matchSignatureToLetter
matchSignatureToLetter(signature) ==
  LET aspectRatio == signature.aspectRatio
      leftHeavy == signature.leftHeavy
      rightHeavy == signature.rightHeavy
      centerHole == signature.centerHole
  IN IF signature.cyanPixels < 50 THEN Unknown
     ELSE IF OutOfRange(aspectRatio)
       THEN (IF Gt(leftHeavy, 65, 100) THEN "E"
             ELSE IF Gt(leftHeavy, 55, 100) THEN "D"
             ELSE "S")
     ELSE IF IsWide(aspectRatio) THEN "W"
     ELSE IF centerHole
       THEN (IF Lt(aspectRatio, 85, 100) /\ Gt(leftHeavy, 60, 100) THEN "D"
             ELSE IF /\ Gt(aspectRatio, 65, 100) /\ Lt(aspectRatio, 90, 100)
                     /\ AbsDiffLt(leftHeavy, rightHeavy, 15, 100)
               THEN "Q"
             ELSE "A")
     ELSE IF Lt(aspectRatio, 11, 10) /\ Gt(leftHeavy, 60, 100) THEN "E"
     ELSE IF Lt(aspectRatio, 11, 10) /\ Gt(leftHeavy, 54, 100) /\ Le(leftHeavy, 60, 100)
       THEN "R"
     ELSE IF /\ Gt(aspectRatio, 70, 100) /\ Lt(aspectRatio, 125, 100)
             /\ AbsDiffLt(leftHeavy, rightHeavy, 18, 100)
       THEN "S"
     ELSE IF Gt(aspectRatio, 125, 100) THEN "W"
     ELSE IF Gt(leftHeavy, 58, 100) THEN "E"
     ELSE IF Gt(leftHeavy, 52, 100) THEN (IF centerHole THEN "D" ELSE "R")
     ELSE "S"

\* solver.js detectCellLetter on a cell image; unreadable: sharp rejects the buffer
\* and the catch returns '?'
detectCellLetter(img, unreadable) ==
  IF unreadable THEN Unknown
  ELSE LET signature == createLetterSignature(img)
       IN IF signature.cyanPixels < 50 THEN Unknown
          ELSE matchSignatureToLetter(signature)

\* main.js detectCellLetter: const letterMap = { 'A': 'D', 'S': 'A', 'D': 'E', 'Q': 'R', 'W': 'W' }
letterMap == [l \in {"A", "S", "D", "Q", "W"} |->
               CASE l = "A" -> "D" [] l = "S" -> "A" [] l = "D" -> "E"
                 [] l = "Q" -> "R" [] l = "W" -> "W"]

\* a lookup that turns a symbol without an entry into Unknown
correctOrUnknown(detectedLetter) ==
  IF detectedLetter \in DOMAIN letterMap THEN letterMap[detectedLetter] ELSE Unknown

\* letterMap[detectedLetter] || detectedLetter
correctedLetter(detectedLetter) ==
  IF detectedLetter \in DOMAIN letterMap THEN letterMap[detectedLetter] ELSE detectedLetter

\* main.js detectCellLetter (the copy of the solver in main.js): the same
\* signature and decision list, then the correction
detectCellLetterMapped(img, unreadable) ==
  IF unreadable THEN Unknown
  ELSE LET signature == createLetterSignature(img)
       IN IF signature.cyanPixels < 50 THEN Unknown
          ELSE correctedLetter(matchSignatureToLetter(signature))

\* one call of detectCellLetter, on the cell image at hand
ProbeDetectCell ==
  /\ probe.fn = "cellBuffer"
  /\ probe' = [fn |-> "detectCellLetter", image |-> probe.image,
               unreadable |-> probe.unreadable,
               signature |-> createLetterSignature(probe.image),
               letter |-> detectCellLetter(probe.image, probe.unreadable),
               corrected |-> detectCellLetterMapped(probe.image, probe.unreadable)]
  /\ UNCHANGED <<config, sessionState>>

InitCell ==
  /\ InitProgram
  /\ config = DefaultConfig
  /\ templates = {}
  /\ screen = BlankScreen
  /\ probe \in [fn : {"cellBuffer"}, image : CellImages, unreadable : BOOLEAN]

NextCell == ProbeDetectCell

SpecCell == InitCell /\ [][NextCell]_vars

\* signatures handed to matchSignatureToLetter: evidence around the floor of 50,
\* aspect ratios on and around every threshold of the decision list, left share in
\* hundredths with the right share its complement
Quotient(n, d) == [num |-> n, den |-> d]

Signatures ==
  {[cyanPixels |-> n, pixelCount |-> n, aspectRatio |-> a,
    topHeavy |-> Quotient(1, 2), bottomHeavy |-> Quotient(1, 2),
    leftHeavy |-> Quotient(l, 100), rightHeavy |-> Quotient(100 - l, 100),
    centerHole |-> h] :
     n \in {49, 50, 200},
     a \in {Quotient(1, 10), Quotient(3, 20), Quotient(1, 2), Quotient(13, 20),
            Quotient(7, 10), Quotient(4, 5), Quotient(17, 20), Quotient(9, 10),
            Quotient(1, 1), Quotient(11, 10), Quotient(5, 4), Quotient(13, 10),
            Quotient(7, 5), Quotient(2, 1), Quotient(21, 10), Quotient(3, 1)},
     l \in {0, 30, 38, 45, 50, 52, 53, 54, 55, 56, 58, 60, 61, 62, 65, 66, 80, 100},
     h \in BOOLEAN}

\* one call of matchSignatureToLetter; letter is what solver.js detectCellLetter
\* returns for the cell, corrected what main.js detectCellLetter returns for it
ProbeMatchSignature ==
  /\ probe.fn = "signature"
  /\ probe' = [fn |-> "matchSignatureToLetter", signature |-> probe.signature,
               letter |-> matchSignatureToLetter(probe.signature),
               corrected |-> IF probe.signature.cyanPixels < 50 THEN Unknown
                             ELSE correctedLetter(matchSignatureToLetter(probe.signature))]
  /\ UNCHANGED <<config, sessionState>>

InitClassify ==
  /\ InitProgram
  /\ config = DefaultConfig
  /\ templates = {}
  /\ screen = BlankScreen
  /\ probe \in [fn : {"signature"}, signature : Signatures]

NextClassify == ProbeMatchSignature

SpecClassify == InitClassify /\ [][NextClassify]_vars

\* the symbols a decision list can hand to the correction
Symbols == {VALID_LETTERS[i] : i \in 1..Len(VALID_LETTERS)} \cup {Unknown}

\* raw classifications of the 9 cells: the first row takes every combination, the
\* other rows run through the symbols in turn
SymbolSeq == VALID_LETTERS \o <<Unknown>>

\* main.js detectLetters: the 9 cells in row-major order, each through the
\* correction of detectCellLetter
ProbeDetectLetters ==
  /\ probe.fn = "rawGrid"
  /\ probe' = [fn |-> "detectLetters", raw |-> probe.raw,
               letters |-> [c \in 1..NumCells |-> correctedLetter(probe.raw[c])]]
  /\ UNCHANGED <<config, sessionState>>

InitRemap ==
  /\ InitProgram
  /\ config = DefaultConfig
  /\ templates = {}
  /\ screen = BlankScreen
  /\ probe \in [fn : {"rawGrid"},
                raw : {[c \in 1..NumCells |->
                          IF c = 1 THEN a ELSE IF c = 2 THEN b ELSE IF c = 3 THEN d
                          ELSE SymbolSeq[((c + k) % Len(SymbolSeq)) + 1]] :
                         a \in Symbols, b \in Symbols, d \in Symbols, k \in 0..1}]

NextRemap == ProbeDetectLetters

SpecRemap == InitRemap /\ [][NextRemap]_vars

\* ------------------------------------------------------ template matching
\* raw buffers of one row of BufW pixels; every buffer of the fast solver is resized
\* to one size, so the minimum of the two sizes is that size
BufW == 3

\* a pixel is one that just passes compareImages's cyan test or one that just fails it
Buffers ==
  [width : {BufW}, height : {1},
   data : [1..BufW -> {[r |-> 139, g |-> 81, b |-> 101], [r |-> 140, g |-> 255, b |-> 255]}]]

\* what loadTemplates leaves in templates: one buffer per file that exists, of the
\* files W, A and D
TemplateSets ==
  UNION {[loaded -> Buffers] : loaded \in SUBSET {"W", "A", "D"}}

\* cellIsCyan / templateIsCyan
FastIsCyan(p) == p.b > 100 /\ p.g > 80 /\ p.r < 140

\* the pixels compareImages visits: x, y below the smaller width and height
ComparedPixels(cellBuffer, templateBuffer) ==
  {<<x, y>> : x \in 0..(Min(cellBuffer.width, templateBuffer.width) - 1),
              y \in 0..(Min(cellBuffer.height, templateBuffer.height) - 1)}

\* main.js compareImages: matchingPixels / totalCyanPixels * 100, 0 without
\* template foreground
compareImages(cellBuffer, templateBuffer) ==
  LET cyanInTemplate ==
        {xy \in ComparedPixels(cellBuffer, templateBuffer) :
           FastIsCyan(templateBuffer.data[xy[2] * templateBuffer.width + xy[1] + 1])}
      matching ==
        {xy \in cyanInTemplate :
           FastIsCyan(cellBuffer.data[xy[2] * cellBuffer.width + xy[1] + 1])}
  IN IF Cardinality(cyanInTemplate) > 0
       THEN Quotient(Cardinality(matching) * 100, Cardinality(cyanInTemplate))
       ELSE Quotient(0, 1)

\* a comparison that also replaces the best match on a tie
AtLeast(confidence, best) == confidence.num * best.den >= best.num * confidence.den

\* if (confidence > bestMatch.confidence)
Exceeds(confidence, best) == confidence.num * best.den > best.num * confidence.den

\* the loop of detectLetterFast over Object.entries(templates), from the i-th
\* letter of the loading order on
RECURSIVE BestFrom(_, _, _, _)
BestFrom(i, cellBuffer, tpl, bestMatch) ==
  IF i > Len(VALID_LETTERS) THEN bestMatch
  ELSE LET letter == VALID_LETTERS[i]
       IN IF letter \notin DOMAIN tpl THEN BestFrom(i + 1, cellBuffer, tpl, bestMatch)
          ELSE LET confidence == compareImages(cellBuffer, tpl[letter])
               IN BestFrom(i + 1, cellBuffer, tpl,
                    IF Exceeds(confidence, bestMatch.confidence)
                      THEN [letter |-> letter, confidence |-> confidence]
                      ELSE bestMatch)

\* main.js detectLetterFast
detectLetterFast(cellBuffer, tpl) ==
  BestFrom(1, cellBuffer, tpl, [letter |-> Unknown, confidence |-> Quotient(0, 1)])

\* one call of detectLetterFast
ProbeDetectFast ==
  /\ probe.fn = "fastCell"
  /\ probe' = [fn |-> "detectLetterFast", cellBuffer |-> probe.cellBuffer,
               templates |-> probe.templates,
               result |-> detectLetterFast(probe.cellBuffer, probe.templates)]
  /\ UNCHANGED <<config, sessionState>>

InitTemplate ==
  /\ InitProgram
  /\ config = FastConfig
  /\ screen = BlankScreen
  /\ probe \in [fn : {"fastCell"}, cellBuffer : Buffers, templates : TemplateSets]
  /\ templates = DOMAIN probe.templates

NextTemplate == ProbeDetectFast

SpecTemplate == InitTemplate /\ [][NextTemplate]_vars

\* ------------------------------------------------------ repeated classification
\* the same cell classified twice while the stop flag and the configuration change
RepeatSignatures ==
  {s \in Signatures :
     /\ s.cyanPixels = 200
     /\ s.aspectRatio \in {Quotient(1, 10), Quotient(1, 2), Quotient(4, 5), Quotient(1, 1),
                           Quotient(7, 5), Quotient(3, 1)}
     /\ s.leftHeavy.num \in {30, 50, 56, 61, 80}}

\* one more classification of the cell at hand: matchSignatureToLetter on its
\* signature or detectLetterFast on its buffer
ProbeRepeat ==
  /\ probe.fn \in {"sameSignature", "sameBuffer"}
  /\ Len(probe.results) < 2
  /\ probe' = [probe EXCEPT !.results =
                 Append(@, [value |-> IF probe.fn = "sameSignature"
                                        THEN matchSignatureToLetter(probe.signature)
                                        ELSE detectLetterFast(probe.cellBuffer, probe.templates),
                            stopped |-> shouldStop,
                            updates |-> nUpdates])]
  /\ UNCHANGED <<config, sessionState>>

InitRepeat ==
  /\ InitProgram
  /\ screen = BlankScreen
  /\ \/ /\ probe \in [fn : {"sameSignature"}, signature : RepeatSignatures, results : {<<>>}]
        /\ config = DefaultConfig
        /\ templates = {}
     \/ /\ probe \in [fn : {"sameBuffer"}, cellBuffer : Buffers,
                      templates : {t \in TemplateSets : DOMAIN t \subseteq {"W"}},
                      results : {<<>>}]
        /\ config = FastConfig
        /\ templates = DOMAIN probe.templates

NextRepeat ==
  \/ ProbeRepeat
  \/ StopSolver
  \/ /\ probe.fn = "sameSignature"
     /\ UpdateConfig
  \/ /\ probe.fn = "sameBuffer"
     /\ FastUpdate

SpecRepeat == InitRepeat /\ [][NextRepeat]_vars

\* ------------------------------------------------------ the renderer
\* renderer.js handleSolverStatus / handleGridDetected / handleKeyPressed on one
\* event of invocation s; a terminal status arms a 3 s timer.  The letters of a
\* grid-detected event are the invocation's letters array, complete when it is sent.
HandleEvent(r, s, e) ==
  CASE e.type = "solver-status" ->
         [r EXCEPT !.statusMessage = e.message,
                   !.armed = IF e.status \in {"complete", "error", "stopped"} THEN @ + 1 ELSE @]
    [] e.type = "grid-detected" ->
         [r EXCEPT !.cells = [c \in 1 .. NumCells |-> letters[s][c]], !.active = -1]
    [] e.type = "key-pressed" ->
         [r EXCEPT !.active = IF e.count >= 0 /\ e.count < NumCells THEN e.count ELSE -1]

\* the renderer handles the next event of invocation s, in the order it was sent
RendererReceive(s) ==
  /\ renderer.seen[s] < Len(events[s])
  /\ renderer' = [HandleEvent(renderer, s, events[s][renderer.seen[s] + 1])
                    EXCEPT !.seen[s] = @ + 1]
  /\ UNCHANGED <<config, probe, isDetecting, shouldStop, screen, pc, validated, letters, idx,
                 geom, timing, keys, failed, events, execCalls, entryCfg, stopMark, keyRuns,
                 nStops, nUpdates, templates, extracted>>

\* the callback of setTimeout(..., 3000) in handleSolverStatus
RendererTimer ==
  /\ renderer.fired < renderer.armed
  /\ renderer' = [renderer EXCEPT !.fired = @ + 1,
                                  !.cells = resetGrid(@),
                                  !.active = -1,
                                  !.statusMessage = "Ready - Press hotkey to start"]
  /\ UNCHANGED <<config, probe, isDetecting, shouldStop, screen, pc, validated, letters, idx,
                 geom, timing, keys, failed, events, execCalls, entryCfg, stopMark, keyRuns,
                 nStops, nUpdates, templates, extracted>>

\* a grid at the ceiling of 5 Unknown cells and one above it
LiveGrids ==
  { <<"Q", "?", "?", "W", "?", "E", "?", "R", "?">>,
    <<"?", "Q", "?", "?", "W", "?", "?", "E", "?">> }

\* one session with its window: every external call of the session returns (with
\* a result or an error), every sent event is handled, every timer fires
InitLive ==
  /\ InitProgram
  /\ probe = NoProbe
  /\ config = DefaultConfig
  /\ templates = {}
  /\ screen \in [frame : FrameSizes, present : {TRUE}, cells : LiveGrids]

Returns(s) == SessionStep(s) \/ CaptureFails(s) \/ SendKeyFails(s)

NextLive ==
  \/ HotkeyPressed(SoloSessions)
  \/ IpcStopSolver
  \/ \E s \in SoloSessions : SessionStep(s)
  \/ \E s \in SoloSessions : CaptureFails(s)
  \/ \E s \in SoloSessions : SendKeyFails(s)
  \/ \E s \in SoloSessions : RendererReceive(s)
  \/ RendererTimer

SpecLive ==
  /\ InitLive
  /\ [][NextLive]_vars
  /\ \A s \in SoloSessions : WF_vars(Returns(s))
  /\ \A s \in SoloSessions : WF_vars(RendererReceive(s))
  /\ WF_vars(RendererTimer)

\* ------------------------------------------------------ pixel tests on their own
\* channel values on both sides of the thresholds of the pixel tests
ChannelLevels == {0, 20, 50, 75, 100, 119, 121, 150, 200, 255}

\* |r - g| + |r - b| + |g - b|
colorDeviation(p) == Abs(p.r - p.g) + Abs(p.r - p.b) + Abs(p.g - p.b)

\* part_000 detectLetter's pixel test
detectLetterIsCyan(p) ==
  /\ p.b > 80 /\ p.g > 50 /\ p.r < 160
  /\ p.r + p.g + p.b > 180
  /\ colorDeviation(p) > 60
  /\ 10 * p.b > 7 * p.r

\* one pixel through the tests of validateMinigamePresent, createLetterSignature
\* and detectLetter
ProbePixel ==
  /\ probe.fn = "pixel"
  /\ probe' = [fn |-> "pixelTests", pixel |-> probe.pixel,
               cyanLetter |-> IsCyanLetter(probe.pixel),
               darkBlue |-> IsDarkBlue(probe.pixel),
               gridBorder |-> IsGridBorder(probe.pixel),
               signatureForeground |-> isCyanLetter(probe.pixel),
               detectLetterForeground |-> detectLetterIsCyan(probe.pixel)]
  /\ UNCHANGED <<config, sessionState>>

InitPixel ==
  /\ InitProgram
  /\ config = DefaultConfig
  /\ templates = {}
  /\ screen = BlankScreen
  /\ probe \in [fn : {"pixel"}, pixel : [r : ChannelLevels, g : ChannelLevels, b : ChannelLevels]]

NextPixel == ProbePixel

SpecPixel == InitPixel /\ [][NextPixel]_vars

\* two sessions one after the other with their window: no stop request, so a
\* session starts only when the one before it has published its last event, and
\* the renderer handles the events in the order they were sent
InitWindow ==
  /\ InitProgram
  /\ probe = NoProbe
  /\ config = DefaultConfig
  /\ templates = {}
  /\ screen \in [frame : FrameSizes, present : {TRUE}, cells : LiveGrids]

ReceiveInOrder(s) ==
  /\ \A t \in Sessions : t < s => renderer.seen[t] = Len(events[t])
  /\ RendererReceive(s)

NextWindow ==
  \/ IpcStartSolver(Sessions)
  \/ \E s \in Sessions : SessionStep(s)
  \/ \E s \in Sessions : ReceiveInOrder(s)
  \/ RendererTimer

SpecWindow == InitWindow /\ [][NextWindow]_vars

\* ------------------------------------------------------- the settings calls
\* solver.js getConfig / updateConfig called on the module's config object, outside
\* any session.  probe keeps the last call made, the config before it, and the object
\* a getConfig call handed out.

\* values the offset sliders and the delay sliders are moved to
SliderOffsets == {-50, 0}

\* renderer.js 105-158: every control sends an object with its one key; the
\* resolution select offers the presets
UiCalls ==
  {[resolution |-> r] : r \in DOMAIN RESOLUTION_CONFIGS}
    \cup {[offsetX |-> v] : v \in SliderOffsets}
    \cup {[offsetY |-> v] : v \in SliderOffsets}
    \cup {[baseDelay |-> 300], [delayVariance |-> 0], [hotkey |-> "F7"]}

\* updateConfig as an exported function: a resolution alone or with offsets
ApiResolutions == DOMAIN RESOLUTION_CONFIGS \cup {"3840x2160"}

ApiCalls ==
  {[resolution |-> r] : r \in ApiResolutions}
    \cup {[resolution |-> r, offsetX |-> x] : r \in ApiResolutions, x \in SliderOffsets}
    \cup {[resolution |-> r, offsetY |-> y] : r \in ApiResolutions, y \in SliderOffsets}
    \cup {[resolution |-> r, offsetX |-> x, offsetY |-> y] :
            r \in ApiResolutions, x \in SliderOffsets, y \in SliderOffsets}
    \cup {[offsetX |-> x] : x \in SliderOffsets}
    \cup {[offsetX |-> x, offsetY |-> y] : x \in SliderOffsets, y \in SliderOffsets}

\* handing out the config object itself
sharedConfig(cfg) == [fresh |-> FALSE, value |-> cfg]

\* solver.js getConfig: { ...config } is a new object with the same (primitive) values
getConfig(cfg) == [fresh |-> TRUE, value |-> cfg]

CallUpdateConfig(calls) ==
  /\ probe.fn = "settings"
  /\ nUpdates < MaxUpdates
  /\ \E newConfig \in calls :
       /\ config' = updateConfig(config, newConfig)
       /\ probe' = [probe EXCEPT !.op = "updateConfig", !.before = config,
                                 !.call = <<newConfig>>]
  /\ nUpdates' = nUpdates + 1
  /\ UNCHANGED <<isDetecting, shouldStop, screen, renderer, pc, validated, letters, idx,
                 geom, timing, keys, failed, events, execCalls, entryCfg, stopMark,
                 keyRuns, nStops, templates, extracted>>

CallGetConfig ==
  /\ probe.fn = "settings"
  /\ probe.held = <<>>
  /\ probe' = [probe EXCEPT !.op = "getConfig", !.before = config,
                            !.held = <<getConfig(config)>>]
  /\ UNCHANGED <<config, sessionState>>

\* the caller assigns to a key of the object it was given; an object that is the
\* solver's own config changes the solver's config with it
MutateCopy ==
  /\ probe.fn = "settings"
  /\ probe.held # <<>>
  /\ probe.op # "mutate"
  /\ \E k \in {"cellSize", "offsetX", "resolution"} :
       LET written(cfg) == [cfg EXCEPT ![k] = IF k = "resolution" THEN "800x600" ELSE 1]
       IN /\ probe' = [probe EXCEPT !.op = "mutate", !.before = config,
                                    !.held = <<[probe.held[1] EXCEPT !.value = written(@)]>>]
          /\ config' = IF probe.held[1].fresh \/ probe.held[1].value # config
                         THEN config ELSE written(config)
  /\ UNCHANGED sessionState

InitSettings ==
  /\ InitProgram
  /\ screen = BlankScreen
  /\ config = DefaultConfig
  /\ templates = {}
  /\ probe = [fn |-> "settings", op |-> "none", before |-> DefaultConfig, call |-> <<>>,
              held |-> <<>>]

\* the settings view at work
NextSettings ==
  \/ CallUpdateConfig(UiCalls)
  \/ CallGetConfig
  \/ MutateCopy

SpecSettings == InitSettings /\ [][NextSettings]_vars

\* any caller of the exported function
NextUpdate ==
  \/ CallUpdateConfig(ApiCalls)
  \/ CallGetConfig
  \/ MutateCopy

SpecUpdate == InitSettings /\ [][NextUpdate]_vars

\* ------------------------------------------------------------------ claims
KeyEvents(s) == SelectSeq(events[s], LAMBDA e : e.type = "key-pressed")
LastEvent(s) == events[s][Len(events[s])]
Published(s, st) == \E p \in 1 .. Len(events[s]) : events[s][p].status = st
IsPrefix(a, b) == Len(a) <= Len(b) /\ \A k \in 1 .. Len(a) : a[k] = b[k]

\* the sendKey calls a grid asks for: its non-Unknown cells in increasing index
RECURSIVE KnownFrom(_, _)
KnownFrom(ls, k) ==
  IF k > Len(ls) THEN <<>>
  ELSE (IF ls[k] = Unknown THEN <<>> ELSE <<[index |-> k - 1, key |-> ToLowerCase(ls[k])]>>)
         \o KnownFrom(ls, k + 1)

\* C1: for every 9-element grid the keys executeKeySequence injects are the grid's
\* non-Unknown entries in increasing index: at every moment the sendKey calls made
\* are a prefix of that list, every call has exactly one key-pressed notification
\* with its index and letter, and a call that returns normally has made them all.
C1_KeysRowMajor ==
  \A s \in Sessions :
    LET want == KnownFrom(letters[s], 1)
        seen == KeyEvents(s)
    IN /\ keys[s] # <<>> => Len(letters[s]) = NumCells
       /\ IsPrefix(keys[s], want)
       /\ Len(seen) = Len(keys[s])
       /\ \A k \in 1 .. Len(seen) :
            /\ seen[k].count = keys[s][k].index
            /\ seen[k].message = letters[s][seen[k].count + 1]
            /\ seen[k].message # Unknown
       /\ (pc[s] = "done" /\ LastEvent(s).status = "complete") => keys[s] = want

\* a session over a grid with Unknown cells at the start, in the middle and at the
\* end ran to completion
C1_Witness ==
  \E s \in Sessions :
    /\ pc[s] = "done" /\ LastEvent(s).status = "complete"
    /\ letters[s] = <<"?", "Q", "?", "Q", "Q", "?", "Q", "Q", "?">>
    /\ Len(keys[s]) = 5

\* C2: when stop() sets the flag during the delay that follows the k-th key of an
\* executeKeySequence call, and no other session enters executeKeySequence before
\* the call looks at the flag, the call makes exactly k key injections and k
\* key-pressed notifications and ends by throwing instead of completing.
C2_StopDuringDelay ==
  \A s \in Sessions :
    stopMark[s] >= 0 =>
      /\ Len(keys[s]) = stopMark[s]
      /\ Len(KeyEvents(s)) = stopMark[s]
      /\ pc[s] \in {"sleep", "done"}
      /\ pc[s] = "done" => LastEvent(s) = Status("error", "Sequence stopped by user", 0)

\* Scenario D: stopped after 3 keys, the session ended with 3 keys sent
C2_Witness ==
  \E s \in Sessions :
    /\ pc[s] = "done" /\ stopMark[s] = 3
    /\ Len(keys[s]) = 3 /\ Len(KeyEvents(s)) = 3
    /\ Len(KnownFrom(letters[s], 1)) > 3

\* C3: a stop request that arrives while a session is Detecting ends it Stopped: after
\* that 'stopped' the session publishes no 'executing' and no 'key-pressed', and it
\* injects no key.
C3_StopWhileDetecting ==
  \A s \in Sessions :
    \A p \in 1 .. Len(events[s]) :
      (/\ events[s][p].status = "stopped"
       /\ \A r \in 1 .. p : events[s][r].status # "executing")
      => /\ \A q \in p .. Len(events[s]) :
              events[s][q].status # "executing" /\ events[s][q].type # "key-pressed"
         /\ keys[s] = <<>>

\* C4: at most one startSolver invocation is between its busy check and its finally
\* block.
C4_OneSessionInFlight == Cardinality({s \in Sessions : InFlight(s)}) <= 1

\* C5: at most one sendKey is in flight, and the keys of one session's grid are not
\* interleaved with those of another's.
C5_SequentialInjection ==
  /\ Cardinality({s \in Sessions : pc[s] = "sendKey"}) <= 1
  /\ \A s \in Sessions : Cardinality({k \in 1 .. Len(keyRuns) : keyRuns[k] = s}) <= 1

\* C6: a session stopped during key execution ends Stopped: after the 'stopped' that
\* follows its 'executing' no 'error' and no 'complete' is published for it, and the
\* last status of the finished session is 'stopped'.
C6_StoppedIsTerminal ==
  \A s \in Sessions :
    \A p \in 1 .. Len(events[s]) :
      (/\ events[s][p].status = "stopped"
       /\ \E r \in 1 .. p : events[s][r].status = "executing")
      => /\ \A q \in p .. Len(events[s]) : events[s][q].status \notin {"error", "complete"}
         /\ pc[s] = "done" => LastEvent(s).status = "stopped"

\* C7: when validateMinigamePresent returns false the session goes to Error without
\* cell work: 'error' is published, detectLetters and executeKeySequence are not
\* called, no key is injected.
C7_AbsentAborts ==
  \A s \in Sessions :
    validated[s] = "absent" =>
      /\ pc[s] = "done" /\ LastEvent(s).status = "error"
      /\ letters[s] = <<>> /\ geom[s].rects = <<>>
      /\ execCalls[s] = 0 /\ keys[s] = <<>>

\* C8: once detectLetters has returned, a grid with more than 5 Unknown cells has
\* ended the session in Error straight from Detecting, the error carrying the
\* count, with no 'executing' and no executeKeySequence call; a grid with 5 or
\* fewer has published 'executing' and entered executeKeySequence.
C8_UnknownCeiling ==
  \A s \in Sessions :
    (Len(letters[s]) = NumCells /\ pc[s] \in {"sendKey", "sleep", "done"}) =>
      LET u == UnknownCount(letters[s])
      IN IF u > 5
           THEN /\ pc[s] = "done"
                /\ LastEvent(s) = Status("error", "Too many undetected letters", u)
                /\ events[s][Len(events[s]) - 1].type = "grid-detected"
                /\ ~Published(s, "executing")
                /\ execCalls[s] = 0 /\ keys[s] = <<>>
           ELSE /\ Published(s, "executing")
                /\ execCalls[s] = 1

\* Scenario C: a grid with 6 Unknown cells ended in Error with count 6
C8_Witness ==
  \E s \in Sessions :
    /\ pc[s] = "done" /\ UnknownCount(letters[s]) = 6 /\ Len(letters[s]) = NumCells
    /\ LastEvent(s).status = "error" /\ LastEvent(s).count = 6

\* C9: a configuration update processed while a session is in flight does not affect
\* it: the presence rectangle, all cell rectangles and every inter-key delay of the
\* session use the configuration that held when the session entered Detecting.
C9_ConfigSnapshot ==
  \A s \in Sessions :
    LET c == entryCfg[s]
    IN /\ geom[s].presence.width > 0 => geom[s].presence = PresenceRect(c)
       /\ \A k \in 1 .. Len(geom[s].rects) :
            geom[s].rects[k] = CellRect(c, k - 1, getTopLeftCellPosition(c))
       /\ \A k \in 1 .. Len(timing[s]) : timing[s][k] = DelayParams(c)

\* C10: a failed key injection is not fatal, in executeKeySequence and in
\* pressKeySequenceFast alike: a session in which the injection for some cell failed
\* and that was not asked to stop ends with every non-Unknown cell's key injected, in
\* order, and with 'complete', not 'error'.
C10_InjectionFailureNotFatal ==
  \A s \in Sessions :
    (failed[s] >= 0 /\ nStops = 0) =>
      /\ IsPrefix(keys[s], KnownFrom(letters[s], 1))
      /\ pc[s] = "done" =>
           /\ keys[s] = KnownFrom(letters[s], 1)
           /\ LastEvent(s).status = "complete"

\* C11: in executeKeySequence exactly one delay separates two consecutive key
\* emissions and no delay follows the last key emitted, for every grid: with no stop
\* request, a call that is sending its k-th key has taken k - 1 delays, a call that is
\* in a delay has taken k and has a further key to emit, and a call that completed
\* after k > 0 keys has taken k - 1.
C11_OneDelayBetweenKeys ==
  \A s \in Sessions :
    nStops = 0 =>
      LET k == Len(keys[s])
          d == Len(timing[s])
      IN /\ pc[s] = "sendKey" => d = k - 1
         /\ pc[s] = "sleep" => d = k /\ NextKey(letters[s], idx[s] + 1) < NumCells
         /\ (pc[s] = "done" /\ k > 0 /\ LastEvent(s).status = "complete") => d = k - 1

\* C12: every delay d that getRandomDelay returns satisfies
\* max(50, baseDelay - delayVariance) <= d <= max(50, baseDelay + delayVariance), for
\* all non-negative integer baseDelay and delayVariance; d is never below 50 ms.
C12_DelayWithinBounds ==
  probe.fn = "getRandomDelay" =>
    /\ probe.delay >= 50 * RandDenom
    /\ probe.delay >= (probe.baseDelay - probe.delayVariance) * RandDenom
    /\ probe.delay <= (IF probe.baseDelay + probe.delayVariance > 50
                         THEN probe.baseDelay + probe.delayVariance ELSE 50) * RandDenom

\* a draw that the floor raised to 50 ms, and the configuration allows less
C12_Witness ==
  /\ probe.fn = "getRandomDelay"
  /\ probe.baseDelay + probe.delayVariance > 50
  /\ probe.baseDelay - probe.delayVariance < 50
  /\ getRandomDelayNoFloor([baseDelay |-> probe.baseDelay,
                            delayVariance |-> probe.delayVariance], probe.roll)
       < 50 * RandDenom
  /\ probe.delay = 50 * RandDenom

\* C13: a cell rectangle that lies partly outside the captured frame is fatal to the
\* session: captureSingleCell fails on it, no later rectangle is asked for, the
\* session ends with 'error' holding only the letters of the cells before it,
\* 'executing' is never published, executeKeySequence is never called and no key is
\* injected.
C13_OutOfFrameIsFatal ==
  \A s \in Sessions :
    \A k \in 1 .. Len(geom[s].rects) :
      LET rect == geom[s].rects[k]
      IN (\/ rect.x + rect.width > screen.frame.w
          \/ rect.y + rect.height > screen.frame.h) =>
           /\ k = Len(geom[s].rects)
           /\ pc[s] \in {"cell", "done"}
           /\ pc[s] = "cell" => idx[s] = k - 1
           /\ pc[s] = "done" =>
                /\ LastEvent(s).status = "error"
                /\ Len(letters[s]) = k - 1
           /\ ~Published(s, "executing")
           /\ execCalls[s] = 0
           /\ keys[s] = <<>>

\* the third cell's rectangle ran over the right edge after two cells were read: the
\* session ended in error with no key
C13_Witness ==
  \E s \in Sessions :
    /\ pc[s] = "done" /\ LastEvent(s).status = "error"
    /\ Len(geom[s].rects) = 3
    /\ geom[s].rects[3].x + geom[s].rects[3].width > screen.frame.w
    /\ Len(letters[s]) = 2
    /\ keys[s] = <<>> /\ execCalls[s] = 0

\* does rectangle a share a pixel with rectangle b
Overlap(a, b) ==
  /\ a.x < b.x + b.width /\ b.x < a.x + a.width
  /\ a.y < b.y + b.height /\ b.y < a.y + a.height

\* is pixel (x, y) inside rectangle r
Inside(x, y, r) == x >= r.x /\ x < r.x + r.width /\ y >= r.y /\ y < r.y + r.height

\* C14: the 9 rectangles getCellPosition gives a session are pairwise non-overlapping
\* and their union is the grid rectangle validateMinigamePresent extracted from the
\* same top-left.
C14_CellsTileGrid ==
  \A s \in Sessions :
    Len(geom[s].rects) = NumCells =>
      LET rects == geom[s].rects
          grid == geom[s].presence
      IN /\ \A i, j \in 1 .. NumCells : i # j => ~Overlap(rects[i], rects[j])
         /\ \A i \in 1 .. NumCells :
              /\ rects[i].x >= grid.x /\ rects[i].x + rects[i].width <= grid.x + grid.width
              /\ rects[i].y >= grid.y /\ rects[i].y + rects[i].height <= grid.y + grid.height
         /\ \A x \in grid.x .. grid.x + grid.width - 1 :
              \A y \in grid.y .. grid.y + grid.height - 1 :
                \E i \in 1 .. NumCells : Inside(x, y, rects[i])

\* C15: the grid rectangle that validateMinigamePresent extracts starts at the grid
\* top-left and has a side of 3 x cellSize + 2 x cellSpacing pixels in each axis.
C15_GridExtent ==
  \A s \in Sessions :
    geom[s].presence.width > 0 =>
      /\ geom[s].presence.x = getTopLeftCellPosition(config).x
      /\ geom[s].presence.y = getTopLeftCellPosition(config).y
      /\ geom[s].presence.width = 3 * config.cellSize + 2 * config.cellSpacing
      /\ geom[s].presence.height = 3 * config.cellSize + 2 * config.cellSpacing

\* C16: for every configuration reachable through updateConfig the top-left
\* coordinate the grid locator returns, and every rectangle extracted from it, has
\* x >= 0 and y >= 0, in solver.js and in the template solver alike.
C16_TopLeftNonNegative ==
  \A s \in Sessions :
    /\ geom[s].topLeft.x >= 0 /\ geom[s].topLeft.y >= 0
    /\ \A k \in 1 .. Len(geom[s].rects) : geom[s].rects[k].x >= 0 /\ geom[s].rects[k].y >= 0

\* width and height named by a resolution string
Dimensions(resolution) ==
  CASE resolution = "1920x1080" -> [w |-> 1920, h |-> 1080]
    [] resolution = "2560x1440" -> [w |-> 2560, h |-> 1440]
    [] resolution = "3840x2160" -> [w |-> 3840, h |-> 2160]

\* C17: in solver.js, when config.resolution has no preset profile, the geometry that
\* getTopLeftCellPosition uses is made of fixed fractions of that resolution's own
\* width and height (cell size 5.2 % and spacing 4.9 % of the width, top-left at
\* 41.25 % of the width and 41.2 % of the height), not of another resolution's preset
\* values.
C17_ProportionalFallback ==
  config.resolution \notin DOMAIN RESOLUTION_CONFIGS =>
    LET d == Dimensions(config.resolution)
    IN /\ config.cellSize = (d.w * 52) \div 1000
       /\ config.cellSpacing = (d.w * 49) \div 1000
       /\ getTopLeftCellPosition(config) =
            [x |-> (d.w * 4125) \div 10000, y |-> (d.h * 412) \div 1000]
       /\ \A r \in DOMAIN RESOLUTION_CONFIGS :
            config.cellSize # RESOLUTION_CONFIGS[r].cellSize

\* C18: validateMinigamePresent returns true exactly when the grid region could be
\* extracted and the foreground test (more than 0.2 % and more than 150 pixels), the
\* dark-background test (more than 25 %) and the border test (more than 1 %) all
\* pass; it returns false for a region without a foreground pixel and for a region
\* that cannot be extracted.
C18_PresenceIsThreeWayAnd ==
  probe.fn = "validateMinigamePresent" =>
    /\ probe.isPresent <=>
         /\ probe.extractable
         /\ probe.cyan * 1000 > 2 * probe.total /\ probe.cyan > 150
         /\ probe.dark * 100 > 25 * probe.total
         /\ probe.border * 100 > probe.total
    /\ probe.cyan = 0 => ~probe.isPresent
    /\ ~probe.extractable => ~probe.isPresent

\* a region with letters and borders and no dark background was found absent
C18_Witness ==
  /\ probe.fn = "validateMinigamePresent"
  /\ probe.extractable
  /\ probe.hasLetters /\ probe.hasGridLines /\ ~probe.hasBackground
  /\ ~probe.isPresent

\* C19: the foreground condition of validateMinigamePresent is bounded on both sides:
\* it fails for a region without enough foreground and also for an oversaturated
\* one, in particular a region in which every pixel is a foreground pixel; the
\* background and border conditions only have lower bounds.
C19_ForegroundBoundedAbove ==
  (probe.fn = "validateMinigamePresent" /\ probe.extractable) =>
    /\ probe.cyan = probe.total => ~probe.hasLetters
    /\ probe.cyan = 0 => ~probe.hasLetters
    /\ probe.dark = probe.total => probe.hasBackground
    /\ probe.border = probe.total => probe.hasGridLines

\* the foreground of a cell image, read off its description: how many pixels, and
\* the corners of their bounding box
RefForeground(img) ==
  LET inked == img.ink # OffInk
      r == img.rect
      spurIn == /\ img.spur.x >= r.x /\ img.spur.x < r.x + r.width
                /\ img.spur.y >= r.y /\ img.spur.y < r.y + r.height
      spurAlone == img.spur # NoSpur /\ ~(inked /\ spurIn)
      xs == (IF inked THEN {r.x, r.x + r.width - 1} ELSE {})
              \cup (IF img.spur # NoSpur THEN {img.spur.x} ELSE {})
      ys == (IF inked THEN {r.y, r.y + r.height - 1} ELSE {})
              \cup (IF img.spur # NoSpur THEN {img.spur.y} ELSE {})
  IN [count |-> (IF inked THEN r.width * r.height ELSE 0) + (IF spurAlone THEN 1 ELSE 0),
      xs |-> xs, ys |-> ys]

\* C20: createLetterSignature matches the reference for every pixel buffer: with
\* fewer than 80 foreground pixels aspectRatio = 1, topHeavy = bottomHeavy =
\* leftHeavy = rightHeavy = 0.5 and centerHole = false; otherwise aspectRatio is
\* exactly boundingBoxWidth / boundingBoxHeight with width = maxX - minX + 1 and
\* height = maxY - minY + 1 of the foreground pixels' bounding box.
C20_SignatureReference ==
  probe.fn = "createLetterSignature" =>
    LET ref == RefForeground(probe.image)
        sig == probe.signature
        half == [num |-> 1, den |-> 2]
    IN /\ sig.pixelCount = ref.count
       /\ IF ref.count < 80
            THEN /\ sig.aspectRatio = [num |-> 1, den |-> 1]
                 /\ sig.topHeavy = half /\ sig.bottomHeavy = half
                 /\ sig.leftHeavy = half /\ sig.rightHeavy = half
                 /\ sig.centerHole = FALSE
            ELSE /\ sig.aspectRatio.num = MaxOf(ref.xs) - MinOf(ref.xs) + 1
                 /\ sig.aspectRatio.den = MaxOf(ref.ys) - MinOf(ref.ys) + 1

\* a 79 x 1 stroke plus one far pixel makes exactly 80 foreground pixels: the
\* signature is computed, over the bounding box of both
C20_Witness ==
  /\ probe.fn = "createLetterSignature"
  /\ probe.image.rect.width = 79 /\ probe.image.rect.height = 1
  /\ probe.image.spur = [x |-> ImgW - 1, y |-> ImgH - 1]
  /\ probe.signature.pixelCount = 80
  /\ probe.signature.aspectRatio.num > 79
  /\ probe.signature.aspectRatio.den > 1

\* C21: every cell for which createLetterSignature returns the neutral signature
\* (fewer than 80 foreground pixels) is classified Unknown by detectCellLetter, and
\* so is every cell on which detectCellLetter hits an error.
C21_NeutralIsUnknown ==
  probe.fn = "detectCellLetter" =>
    /\ probe.unreadable => probe.letter = "?"
    /\ probe.signature.pixelCount < 80 => probe.letter = "?"

\* C22: a signature with sufficient evidence (at least 50 foreground pixels) and an
\* aspect ratio above 1.30 and at most 2.0 is classified 'W', whatever its centerHole,
\* leftHeavy and rightHeavy are.
C22_WideIsW ==
  (/\ probe.fn = "matchSignatureToLetter"
   /\ probe.signature.cyanPixels >= 50
   /\ Gt(probe.signature.aspectRatio, 130, 100)
   /\ Le(probe.signature.aspectRatio, 2, 1))
  => probe.letter = "W"

\* aspect ratio 1.4 with a hole and a heavy left half, as a 'D' would have
C22_Witness ==
  /\ probe.fn = "matchSignatureToLetter"
  /\ probe.signature.aspectRatio = Quotient(7, 5)
  /\ probe.signature.centerHole
  /\ probe.signature.leftHeavy = Quotient(80, 100)
  /\ probe.signature.cyanPixels = 200
  /\ probe.letter = "W"

\* C23: a signature with centerHole true, an aspect ratio below 0.85 (and at least
\* 0.15) and leftHeavy above 0.60 is classified 'D', and 'D' is the symbol reported
\* for the cell by solver.js's detectCellLetter and by main.js's.
C23_HoleLeftHeavyIsD ==
  (/\ probe.fn = "matchSignatureToLetter"
   /\ probe.signature.cyanPixels >= 50
   /\ probe.signature.centerHole
   /\ Lt(probe.signature.aspectRatio, 85, 100)
   /\ ~Lt(probe.signature.aspectRatio, 15, 100)
   /\ Gt(probe.signature.leftHeavy, 60, 100))
  => (probe.letter = "D" /\ probe.corrected = "D")

\* C25: the correction maps a symbol with an entry to its target (A to D, S to A,
\* D to E, Q to R, W to W) and any other symbol (E, R, Unknown) to itself, and the
\* same table is applied to each of the 9 cells.
C25_CorrectionTable ==
  probe.fn = "detectLetters" =>
    \A c \in 1..NumCells :
      probe.letters[c] =
        CASE probe.raw[c] = "A" -> "D"
          [] probe.raw[c] = "S" -> "A"
          [] probe.raw[c] = "D" -> "E"
          [] probe.raw[c] = "Q" -> "R"
          [] OTHER -> probe.raw[c]

\* a grid whose cells hold a mapped symbol, E, R and Unknown
C25_Witness ==
  /\ probe.fn = "detectLetters"
  /\ probe.raw[1] = "E" /\ probe.letters[1] = "E"
  /\ probe.raw[2] = "?" /\ probe.letters[2] = "?"
  /\ probe.raw[3] = "R" /\ probe.letters[3] = "R"
  /\ \E c \in 4..NumCells : probe.raw[c] = "A" /\ probe.letters[c] = "D"
  /\ \E c \in 4..NumCells : probe.raw[c] = "D" /\ probe.letters[c] = "E"

\* position of a letter in the loading order
LoadIndex(letter) == CHOOSE i \in 1..Len(VALID_LETTERS) : VALID_LETTERS[i] = letter

\* C24: detectLetterFast returns the letter of the loaded template with the highest
\* match fraction, the earliest loaded among equal maxima; it returns Unknown exactly
\* when every loaded template scores 0 (none loaded, or no matching foreground), and
\* never a letter whose template is not loaded.
C24_BestTemplate ==
  probe.fn = "detectLetterFast" =>
    LET tpl == probe.templates
        score(l) == compareImages(probe.cellBuffer, tpl[l])
        best == probe.result.letter
    IN /\ (best = "?") <=> (\A l \in DOMAIN tpl : score(l).num = 0)
       /\ best # "?" =>
            /\ best \in DOMAIN tpl
            /\ probe.result.confidence = score(best)
            /\ \A l \in DOMAIN tpl :
                 /\ score(l).num * score(best).den <= score(best).num * score(l).den
                 /\ LoadIndex(l) < LoadIndex(best) =>
                      score(l).num * score(best).den < score(best).num * score(l).den

\* two loaded templates tie at the maximum, a third scores lower, and the one
\* loaded first is returned
C24_Witness ==
  /\ probe.fn = "detectLetterFast"
  /\ DOMAIN probe.templates = {"W", "A", "D"}
  /\ compareImages(probe.cellBuffer, probe.templates["W"]) = Quotient(200, 3)
  /\ compareImages(probe.cellBuffer, probe.templates["A"]) = Quotient(200, 2)
  /\ compareImages(probe.cellBuffer, probe.templates["D"]) = Quotient(100, 1)
  /\ probe.result.letter = "A"

TerminalPublished(s) ==
  \E i \in 1 .. Len(events[s]) :
    /\ events[s][i].type = "solver-status"
    /\ events[s][i].status \in {"complete", "error", "stopped"}
    /\ events[s][i].message # ""

GridBlank == \A c \in 1 .. NumCells : renderer.cells[c] = "?"

\* C27: every session that startSolver started eventually publishes a terminal
\* status (complete, error or stopped) with a non-empty message and sees
\* isDetecting false again; the renderer eventually receives that status, every
\* timer a terminal status set eventually fires, and a firing timer leaves all 9
\* grid cells at Unknown.
C27_SessionTerminates ==
  /\ \A s \in SoloSessions :
       InFlight(s) ~> (pc[s] = "done" /\ TerminalPublished(s) /\ ~isDetecting)
  /\ \A s \in SoloSessions : TerminalPublished(s) ~> (renderer.armed >= 1)
  /\ (renderer.armed > renderer.fired) ~> (renderer.fired = renderer.armed /\ GridBlank)
  /\ [][renderer'.fired > renderer.fired =>
         \A c \in 1 .. NumCells : renderer'.cells[c] = "?"]_vars

\* a session completed, the renderer showed its grid with known letters, and every
\* timer has fired
C27_Witness ==
  /\ \E s \in SoloSessions :
       /\ pc[s] = "done"
       /\ LastEvent(s).status = "complete"
       /\ renderer.seen[s] = Len(events[s])
       /\ \E c \in 1 .. NumCells : letters[s][c] # "?"
  /\ renderer.armed >= 1
  /\ renderer.fired = renderer.armed
  /\ GridBlank

\* C28: in solveMinigameFast the 9 extractions settle in any order; the grid has
\* exactly 9 entries once it is built, each result sits at its own row and column,
\* no key is pressed before all 9 have settled, and the keys are the grid's known
\* cells in row-major order.
C28_BarrierThenRowMajor ==
  \A s \in SoloSessions :
    /\ Len(letters[s]) \in {0, NumCells}
    /\ (keys[s] # <<>> \/ Len(letters[s]) > 0) =>
         /\ SettledCells(extracted[s]) = 0 .. NumCells - 1
         /\ Cardinality(extracted[s]) = NumCells
         /\ \A r \in extracted[s] : letters[s][r.row * GridDim + r.col + 1] = r.letter
         /\ \A c \in 1 .. NumCells : letters[s][c] = screen.cells[c]
         /\ IsPrefix(keys[s], KnownFrom(letters[s], 1))

\* a grid with Unknown cells in it was assembled and all its known cells were sent
C28_Witness ==
  \E s \in SoloSessions :
    /\ pc[s] = "done"
    /\ LastEvent(s).status = "complete"
    /\ letters[s] = <<"Q", "?", "?", "W", "?", "E", "?", "R", "?">>
    /\ keys[s] = KnownFrom(letters[s], 1)
    /\ Len(keys[s]) = 4

\* C29: the three colour classes of validateMinigamePresent are pairwise disjoint:
\* no pixel is counted by more than one of the cyan-letter, dark-background and
\* grid-border counters.
C29_ClassesDisjoint ==
  probe.fn = "pixelTests" =>
    /\ ~(probe.cyanLetter /\ probe.darkBlue)
    /\ ~(probe.cyanLetter /\ probe.gridBorder)
    /\ ~(probe.darkBlue /\ probe.gridBorder)

\* C30: every pixel createLetterSignature marks as foreground has a channel
\* deviation |r-g| + |r-b| + |g-b| above the 60 of detectLetter's test, so a
\* near-gray pixel such as (119, 121, 121) is never foreground.
C30_ForegroundNotGray ==
  (probe.fn = "pixelTests" /\ probe.signatureForeground)
  => colorDeviation(probe.pixel) > 60

\* C31: for a signature with sufficient evidence whose aspect ratio is above 2.0 or
\* below 0.15 the result depends on leftHeavy alone: 'E' above 0.65, else 'D' above
\* 0.55, else 'S', whatever centerHole is and although a ratio above 2.0 is above
\* the wide threshold.
C31_OutOfRangeByLeftHeavy ==
  (/\ probe.fn = "matchSignatureToLetter"
   /\ probe.signature.cyanPixels >= 50
   /\ \/ Gt(probe.signature.aspectRatio, 2, 1)
      \/ Lt(probe.signature.aspectRatio, 15, 100))
  => probe.letter = IF Gt(probe.signature.leftHeavy, 65, 100) THEN "E"
                    ELSE IF Gt(probe.signature.leftHeavy, 55, 100) THEN "D"
                    ELSE "S"

\* aspect ratio 3 with a hole and balanced halves: neither 'W' nor a hole letter
C31_Witness ==
  /\ probe.fn = "matchSignatureToLetter"
  /\ probe.signature.cyanPixels = 200
  /\ probe.signature.aspectRatio = Quotient(3, 1)
  /\ probe.signature.centerHole
  /\ probe.signature.leftHeavy = Quotient(50, 100)
  /\ probe.letter = "S"

\* the 7 letters of VALID_LETTERS
Alphabet == {VALID_LETTERS[i] : i \in 1 .. Len(VALID_LETTERS)}

\* what matchSignatureToLetter returns over the signatures of SpecClassify
ReturnedLetters == {matchSignatureToLetter(s) : s \in Signatures}

\* what main.js's detectCellLetter reports over the signatures with enough evidence
\* to reach the decision list
ReportedLetters ==
  {correctedLetter(matchSignatureToLetter(s)) : s \in {x \in Signatures : x.cyanPixels >= 50}}

\* C32: matchSignatureToLetter returns Unknown exactly for the signatures with
\* cyanPixels < 50 and one of the 7 letters for every other signature, and each of
\* the 7 letters is returned for some signature.
C32_TotalOverSignatures ==
  probe.fn = "matchSignatureToLetter" =>
    /\ (probe.letter = "?") <=> (probe.signature.cyanPixels < 50)
    /\ probe.letter \in Alphabet \cup {"?"}
    /\ Alphabet \subseteq ReturnedLetters

\* a signature no rule of the list claims: narrow, no hole, light left half; it
\* gets the final 'S'
C32_Witness ==
  /\ probe.fn = "matchSignatureToLetter"
  /\ probe.signature.cyanPixels = 50
  /\ probe.signature.aspectRatio = Quotient(1, 2)
  /\ ~probe.signature.centerHole
  /\ probe.signature.leftHeavy = Quotient(30, 100)
  /\ probe.letter = "S"

\* C33: under main.js's detectCellLetter (decision list, then correction table)
\* each of the 7 letters is the reported symbol of some signature.
C33_AlphabetReportable ==
  probe.fn = "matchSignatureToLetter" =>
    /\ probe.corrected \in Alphabet \cup {"?"}
    /\ Alphabet \subseteq ReportedLetters

\* C34: in the template-matching solver a stop request does not leak into a later
\* session: a session that no stop request hit and that reports 'complete' has run
\* with the stop flag clear and has pressed a key for every non-Unknown cell of its
\* grid.
C34_StopDoesNotLeak ==
  \A s \in SoloSessions :
    (~Published(s, "stopped") /\ Published(s, "complete")) =>
      /\ ~shouldStop
      /\ keys[s] = KnownFrom(letters[s], 1)

\* the renderer has handled the grid-detected event of invocation s
GridShown(s) ==
  \E i \in 1 .. renderer.seen[s] : events[s][i].type = "grid-detected"

\* the renderer has handled a terminal status of invocation s
TerminalReceived(s) ==
  \E i \in 1 .. renderer.seen[s] :
    /\ events[s][i].type = "solver-status"
    /\ events[s][i].status \in {"complete", "error", "stopped"}

\* C35: the cooldown reset set by one session's terminal status never overwrites
\* the display of a later session: once the renderer has shown a session's grid,
\* and until it receives that session's own terminal status, no step changes the
\* cells or puts the idle text into the status line.
C35_CooldownSparesLaterSession ==
  [][\A s \in Sessions :
       (GridShown(s) /\ ~TerminalReceived(s)) =>
         /\ renderer'.cells = renderer.cells
         /\ renderer'.statusMessage = "Ready - Press hotkey to start"
              => renderer.statusMessage = "Ready - Press hotkey to start"]_vars

\* positions in the events of invocation s
GridAt(s) == {i \in 1 .. Len(events[s]) : events[s][i].type = "grid-detected"}
ExecutingAt(s) == {i \in 1 .. Len(events[s]) : events[s][i].status = "executing"}
KeyAt(s) == {i \in 1 .. Len(events[s]) : events[s][i].type = "key-pressed"}
TerminalAt(s) ==
  {i \in 1 .. Len(events[s]) : events[s][i].status \in {"complete", "error", "stopped"}}

\* 'detecting' statuses published after the grid-detected event
DetectingAfterGrid(s) ==
  {i \in 1 .. Len(events[s]) :
     /\ events[s][i].status = "detecting"
     /\ \E g \in GridAt(s) : g < i}

\* the part of the order that does not concern 'detecting' statuses after the
\* grid: only 'detecting' statuses precede the single 'grid-detected' (9 letters),
\* 'executing' follows it, every 'key-pressed' lies after 'executing' and before
\* the terminal status, nothing but 'key-pressed' lies between 'executing' and the
\* terminal status, there is exactly one terminal status and it is the last event;
\* the 'key-pressed' indices increase strictly within 0..8 and each carries the
\* letter of the grid cell at its index
EventOrder(s) ==
  LET ev == events[s]
      seen == KeyEvents(s)
  IN /\ Cardinality(GridAt(s)) <= 1
     /\ \A g \in GridAt(s) :
          /\ ev[g].count = NumCells
          /\ \A j \in 1 .. g - 1 : ev[j].status = "detecting"
     /\ Cardinality(ExecutingAt(s)) <= 1
     /\ \A e \in ExecutingAt(s) :
          /\ \E g \in GridAt(s) : g < e
          /\ \A j \in e + 1 .. Len(ev) : j \in KeyAt(s) \cup TerminalAt(s)
     /\ \A k \in KeyAt(s) :
          /\ \E e \in ExecutingAt(s) : e < k
          /\ \A x \in TerminalAt(s) : k < x
     /\ TerminalAt(s) \subseteq {Len(ev)}
     /\ (pc[s] = "done") <=> (TerminalAt(s) # {})
     /\ \A k \in 1 .. Len(seen) :
          /\ seen[k].count \in 0 .. NumCells - 1
          /\ k > 1 => seen[k - 1].count < seen[k].count
          /\ seen[k].message = letters[s][seen[k].count + 1]

\* C36, as stated: in a session of main.js's startSolver that no stop request hit
\* the events come in the order 'detecting' statuses, one 'grid-detected',
\* 'executing', 'key-pressed' events, one terminal status: no 'detecting' status
\* follows the 'grid-detected', and the rest of the order holds.
C36_EventOrderAsStated ==
  \A s \in SoloSessions :
    nStops = 0 => (EventOrder(s) /\ DetectingAfterGrid(s) = {})

\* C36, amended: the same order, except that when 1 to 5 cells are Unknown one
\* more 'detecting' status (the warning) lies between 'grid-detected' and
\* 'executing'.
C36_EventOrder ==
  \A s \in SoloSessions :
    nStops = 0 =>
      /\ EventOrder(s)
      /\ Cardinality(DetectingAfterGrid(s)) <= 1
      /\ \A d \in DetectingAfterGrid(s) :
           /\ d - 1 \in GridAt(s)
           /\ d + 1 \in ExecutingAt(s)
           /\ UnknownCount(letters[s]) \in 1 .. MaxUnknown
      /\ (ExecutingAt(s) # {} /\ UnknownCount(letters[s]) > 0) => DetectingAfterGrid(s) # {}

\* a session with a warning about Unknown cells pressed its keys and completed
C36_Witness ==
  \E s \in SoloSessions :
    /\ nStops = 0
    /\ pc[s] = "done"
    /\ LastEvent(s).status = "complete"
    /\ Len(KeyEvents(s)) = 4
    /\ UnknownCount(letters[s]) = 5
    /\ KeyEvents(s)[1].count = 2
    /\ DetectingAfterGrid(s) # {}

\* C37: updateConfig called with a preset resolution sets cellSize and cellSpacing to
\* the preset's values and replaces offsetX / offsetY by the preset's offsets only when
\* the call does not supply them: a supplied offset is kept, 0 included.
C37_SuppliedOffsetKept ==
  (/\ probe.op = "updateConfig"
   /\ "resolution" \in DOMAIN probe.call[1]
   /\ probe.call[1].resolution \in DOMAIN RESOLUTION_CONFIGS) =>
     LET newConfig == probe.call[1]
         preset == RESOLUTION_CONFIGS[newConfig.resolution]
     IN /\ config.cellSize = preset.cellSize
        /\ config.cellSpacing = preset.cellSpacing
        /\ config.offsetX = IF "offsetX" \in DOMAIN newConfig
                              THEN newConfig.offsetX ELSE preset.offsetX
        /\ config.offsetY = IF "offsetY" \in DOMAIN newConfig
                              THEN newConfig.offsetY ELSE preset.offsetY

\* C38: after any sequence of the calls the settings view makes, cellSize and
\* cellSpacing are those of the preset of the current resolution; a call without a
\* resolution key changes nothing but the keys it names; writing to the object that
\* getConfig returned leaves the solver's config as it was.
C38_PresetTracksResolution ==
  /\ config.resolution \in DOMAIN RESOLUTION_CONFIGS
  /\ config.cellSize = RESOLUTION_CONFIGS[config.resolution].cellSize
  /\ config.cellSpacing = RESOLUTION_CONFIGS[config.resolution].cellSpacing
  /\ (probe.op = "updateConfig" /\ "resolution" \notin DOMAIN probe.call[1]) =>
       /\ DOMAIN config = DOMAIN probe.before \cup DOMAIN probe.call[1]
       /\ \A k \in DOMAIN probe.before \ DOMAIN probe.call[1] : config[k] = probe.before[k]
       /\ config.resolution = probe.before.resolution
       /\ config.cellSize = probe.before.cellSize
       /\ config.cellSpacing = probe.before.cellSpacing
  /\ probe.op = "mutate" =>
       /\ config = probe.before
       /\ probe.held[1].value # config

C38_Witness ==
  /\ probe.op = "mutate"
  /\ nUpdates = MaxUpdates
  /\ config.resolution = "2560x1440" /\ config.cellSize = 133
  /\ config.offsetX = 0
  /\ probe.held[1].value.cellSize = 1

====
